---- MODULE Spec2Model ----
(***************************************************************************)
(* Verification model of the polyphony compiler back end.                  *)
(*                                                                         *)
(* Part 1: the pipeline control synthesizer (compiler/stg_pipeline.py).    *)
(*   SpecBuild  the builder, one action per builder step                   *)
(*   SpecRun    the emitted control chain, one action per clock cycle      *)
(*   SpecSlice  the emitted register slices on a pipeline that never stalls*)
(* Part 2: the SSA builder (compiler/ssa.py): SpecSSA, SpecSSAExempt.      *)
(* Part 3: the STG builder (compiler/stg.py): SpecSTG.                     *)
(* Part 4: the scheduled items of a block: SpecEmit.                       *)
(* Part 5: resolve_transition on its own: SpecResolve.                     *)
(* Part 6: the signals of a scope (compiler/scope.py): SpecSignals.        *)
(* Part 7: the threads of tests/io/queue02.py: SpecQueue02(Fair).          *)
(* Part 8: the clock cycles of tests/timed/timed03.py: SpecTimed03.        *)
(* Part 9: _remove_useless_phi on its own: SpecPhi(Fair).                  *)
(* Part 10: _cleanup_phi on its own: SpecCleanup.                          *)
(* Part 11: STGBuilder._process_dfg on its own: SpecSelect.                *)
(* Part 12: the port directions (compiler/portconverter.py): SpecPorts.    *)
(* Part 13: _start and _stop of module instances: SpecModules.             *)
(* Part 14: Scope.reorder_scopes: SpecReorder(Fair).                       *)
(***************************************************************************)
EXTENDS Integers, Sequences, FiniteSets, TLC

VARIABLES
    pc,        \* position of the builder / of the emitted state machine /
               \* of the threads of a module that is run
    queue,     \* ScheduledItemQueue.queue: step -> list of scheduled items
               \* (Part 7: the io queues of the module; Part 12: the nodes
               \* to visit; Part 14: the calls of set_order under way)
    pstate,    \* the PipelineState under construction / as built
    sig,       \* the signal the use/def analysis is looking at (or NoSig)
    hdlsigs,   \* names of the slice signals hdlmodule.gen_sig created
    regs,      \* values of the 'reg' tagged pipeline control signals
               \* (Part 8: of the Regs and Ports of the module)
    en,        \* values of the enable nets in the current cycle (inputs)
    data,      \* data registers written by the stages' guarded code
               \* (Parts 7, 8: the locals of the threads; Part 12: the port
               \* types; Part 13: the worker flag and threads; Part 14: the
               \* scopes)
    obs,       \* observations of the run (history)
    ssa,       \* the scope SSAFormTransformer works on (blocks, statements, phis)
    stg        \* the scope STGBuilder works on (blocks, states, transitions)

vars == <<pc, queue, pstate, sig, hdlsigs, regs, en, data, obs, ssa, stg>>

\* The scopes of the other compiler passes, untouched by the pipeline builder.
passVars == <<ssa, stg>>

IdlePasses == ssa = <<>> /\ stg = <<>>

----------------------------------------------------------------------------
(* Bounds of the model.                                                    *)

\* largest cycle number the scheduler hands to the builder (SpecBuild)
MaxStep == 2
\* largest number of stages of a pipeline that is run (SpecRun, SpecSlice)
MaxStages == 3
\* number of values fed into a pipeline that is run
MaxTokens == 3

----------------------------------------------------------------------------
(* AHDL expressions and statements, as the builder constructs them.        *)

Sig(name, idx) == <<name, idx>>

AHDL_CONST(v) == <<"CONST", v>>

AHDL_VAR(s) == <<"VAR", s>>

AHDL_OP1(op, a) == <<"OP1", op, a>>

AHDL_OP(op, a, b) == <<"OP", op, a, b>>

AHDL_IF_EXP(c, a, b) == <<"IF_EXP", c, a, b>>

AHDL_MOVE(dst, src) == <<"MOVE", dst, src>>

AHDL_IF(cond, codes) == <<"IF", cond, codes>>

AHDL_TRANSITION(target) == <<"TRANSITION", target>>

AHDL_TRANSITION_IF(cond, codes) == <<"TRANSITION_IF", cond, codes>>

\* The loop condition of a finite loop, and the same condition with the
\* loop counter replaced by its initial value.
LoopCond == <<"LOOP_COND", "counter">>

LoopCondInit == <<"LOOP_COND", "init">>

\* Kinds of scheduled items the builder tells apart.
ItemKinds ==
    {"MOVE_REG", "MOVE_NET", "MOVE_SUBSCRIPT", "PROCCALL", "IF",
     "SEQ_IO_READ", "SEQ_IO_WRITE", "SEQ_OTHER"}

----------------------------------------------------------------------------
(* PipelineState / PipelineStage                                           *)

valid_signal(idx) == Sig("valid", idx)

ready_signal(idx) == Sig("ready", idx)

enable_signal(idx) == Sig("enable", idx)

hold_signal(idx) == Sig("hold", idx)

last_signal(idx) == Sig("last", idx)

exit_signal(idx) == Sig("exit", idx)

\* 'reg' or 'net', as _pipeline_signal tags the signal.
IsRegSignal(s) == s[1] \in {"valid", "hold", "last", "exit"}

valid_exp_held(idx) ==
    IF idx > 0
    THEN AHDL_IF_EXP(AHDL_VAR(ready_signal(idx)),
                     AHDL_OP("Or", AHDL_VAR(hold_signal(idx)),
                                   AHDL_VAR(valid_signal(idx - 1))),
                     AHDL_VAR(valid_signal(idx)))
    ELSE AHDL_VAR(ready_signal(idx))

valid_exp_no_hold(idx) ==
    IF idx > 0
    THEN AHDL_OP("BitAnd", AHDL_VAR(ready_signal(idx)),
                           AHDL_VAR(valid_signal(idx - 1)))
    ELSE AHDL_VAR(ready_signal(idx))

valid_exp(idx) ==
    IF idx > 0
    THEN AHDL_IF_EXP(AHDL_VAR(hold_signal(idx)),
                     AHDL_VAR(ready_signal(idx)),
                     AHDL_OP("BitAnd", AHDL_VAR(ready_signal(idx)),
                                       AHDL_VAR(valid_signal(idx - 1))))
    ELSE AHDL_VAR(ready_signal(idx))

\* the pipeline state as build leaves it in its STG: the only state, the
\* init state and the finish state
PipelineSTG ==
    [states |-> <<"pstate">>, init_state |-> "pstate", finish_state |-> "pstate"]

\* PipelineStage.__init__
PipelineStage(step, codes) ==
    [step |-> step, codes |-> codes, has_enable |-> FALSE,
     has_hold |-> FALSE, is_source |-> FALSE, enable |-> <<>>,
     guard |-> <<>>, ctrl |-> <<>>]

\* PipelineState.__init__ (no first_valid_signal)
PipelineState(finite) == [stages |-> <<>>, is_finite_loop |-> finite]

\* The stage with index idx (stages are numbered from 0).
StageAt(ps, idx) == ps.stages[idx + 1]

NumStages(ps) == Len(ps.stages)

StageIdx(ps) == 0 .. (NumStages(ps) - 1)

\* new_stage: the append; the assertion that follows it is NewStageAssert.
new_stage(ps, step, codes) ==
    [ps EXCEPT !.stages = Append(@, PipelineStage(step, codes))]

NewStageAssert_none(ps, step) == TRUE

NewStageAssert(ps, step) == Len(ps.stages) = step + 1

----------------------------------------------------------------------------
(* PipelineStageBuilder                                                    *)

_check_guard_need(c) == c \in {"PROCCALL", "IF", "MOVE_REG", "MOVE_SUBSCRIPT"}

NotGuardNeed(c) == ~_check_guard_need(c)

Elems(s) == {s[k] : k \in DOMAIN s}

GuardCond(ps, step, has_enable) ==
    IF step = 0
    THEN IF has_enable THEN AHDL_VAR(ready_signal(0)) ELSE AHDL_CONST(1)
    ELSE AHDL_VAR(valid_signal(step - 1))

\* _make_stage, after new_stage appended the stage: the stage is the last one.
\* The guard is a record: its condition, the guarded codes, and the slice
\* statements _insert_register_slices appends to codes_list[0] later.
MakeStageRest(ps, step) ==
    LET n     == Len(ps.stages)
        stage == ps.stages[n]
        cs    == stage.codes
        hasen == (stage.step = 0 /\ ps.is_finite_loop)
                 \/ (\E c \in Elems(cs) : c \in {"SEQ_IO_READ", "SEQ_IO_WRITE"})
        done  == [stage EXCEPT
                    !.has_enable = hasen,
                    !.is_source = ("SEQ_IO_WRITE" \in Elems(cs)),
                    !.has_hold = (stage.step > 0 /\ cs # <<>>),
                    !.codes = SelectSeq(cs, NotGuardNeed),
                    !.guard = [cond |-> GuardCond(ps, stage.step, hasen),
                               codes |-> SelectSeq(cs, _check_guard_need),
                               slices |-> <<>>]]
    IN [ps EXCEPT !.stages[n] = done]

_make_stage(ps, step, codes) == MakeStageRest(new_stage(ps, step, codes), step)

ReadyRhs_no_source(ps, step) ==
    LET stage   == StageAt(ps, step)
        is_last == step = NumStages(ps) - 1
        r_next  == IF ~is_last THEN AHDL_VAR(ready_signal(step + 1))
                               ELSE AHDL_CONST(1)
    IN IF stage.has_enable
       THEN AHDL_OP("BitAnd", r_next, AHDL_VAR(enable_signal(step)))
       ELSE r_next

ReadyRhs(ps, step) ==
    LET stage   == StageAt(ps, step)
        is_last == step = NumStages(ps) - 1
        r_next  == IF ~is_last THEN AHDL_VAR(ready_signal(step + 1))
                               ELSE AHDL_CONST(1)
        e       == AHDL_VAR(enable_signal(step))
    IN IF stage.has_enable
       THEN IF stage.is_source
            THEN IF NumStages(ps) > step + 1
                 THEN AHDL_OP("BitAnd",
                              AHDL_OP1("Invert", AHDL_VAR(hold_signal(step + 1))),
                              e)
                 ELSE e
            ELSE AHDL_OP("BitAnd", r_next, e)
       ELSE r_next

HoldRhs_level(ps, step) ==
    AHDL_OP("BitAnd",
            AHDL_OP1("Invert", AHDL_VAR(ready_signal(step))),
            AHDL_VAR(valid_signal(step - 1)))

\* a hold register that follows valid[i-1] whatever ready[i] is
HoldRhs_valid(ps, step) == AHDL_VAR(valid_signal(step - 1))

HoldRhs(ps, step) ==
    AHDL_IF_EXP(AHDL_VAR(hold_signal(step)),
                AHDL_OP1("Invert", AHDL_VAR(ready_signal(step))),
                AHDL_OP("BitAnd",
                        AHDL_OP1("Invert", AHDL_VAR(ready_signal(step))),
                        AHDL_VAR(valid_signal(step - 1))))

\* "if not is_last": the stages whose valid register is assigned.
SetsValid(ps, step) == step # NumStages(ps) - 1

_add_control_chain(ps, step) ==
    LET stage     == StageAt(ps, step)
        ready_stm == <<AHDL_MOVE(ready_signal(step), ReadyRhs(ps, step))>>
        hold_stm  == IF stage.has_hold
                     THEN <<AHDL_MOVE(hold_signal(step), HoldRhs(ps, step))>>
                     ELSE <<>>
        set_valid == IF SetsValid(ps, step)
                     THEN <<AHDL_MOVE(valid_signal(step), valid_exp(step))>>
                     ELSE <<>>
    IN [ps EXCEPT !.stages[step + 1].ctrl = @ \o ready_stm \o hold_stm \o set_valid]

----------------------------------------------------------------------------
(* Register slices.  A signal of the use/def table is a record             *)
(*   [tags, d, uses]: its tag set, the stage of its single definition and  *)
(*   the stages of the statements using it.                                *)

NoSig == [tags |-> {}, d |-> 0, uses |-> {}, reads |-> <<>>]

SetMax(S) == CHOOSE x \in S : \A y \in S : y <= x

\* use_max_distances of _build_pipeline_stages
UseMaxDistance(s) == SetMax({0} \cup {u - s.d : u \in s.uses})

NeedSlices(s) ==
    \/ 1 < UseMaxDistance(s)
    \/ (("induction" \in s.tags \/ "net" \in s.tags) /\ 0 < UseMaxDistance(s))

is_normal_reg(s) == "reg" \in s.tags /\ "induction" \notin s.tags

SliceStart_same(s) == s.d

\* start_n after "if is_normal_reg: start_n += 1"
SliceStart(s) == IF is_normal_reg(s) THEN s.d + 1 ELSE s.d

SliceEnd(s) == s.d + UseMaxDistance(s)

SliceSig(num) == <<"slice", num>>

OrigSig == <<"sig", 0>>

\* first loop: the slice signals gen_sig creates
GenSliceSigs(s) ==
    {SliceSig(num) : num \in {k \in SliceStart(s) .. SliceEnd(s) :
                                 k # s.d /\ ~(is_normal_reg(s) /\ k - s.d = 1)}}

\* hdlmodule.signal(name): the signal, or None
SignalOrNone(sigs, s) == IF s \in sigs THEN s ELSE <<"None", 0>>

\* second loop: the signal each use reads after replacer.replace
UseReads(s, sigs) ==
    [num \in s.uses |->
        IF num = s.d \/ (is_normal_reg(s) /\ num - s.d = 1)
        THEN OrigSig
        ELSE SignalOrNone(sigs, SliceSig(num))]

SlicePrev_orig(s, sigs, num) == OrigSig

\* "first slice uses original"
SlicePrev(s, sigs, num) ==
    IF num = SliceStart(s) THEN OrigSig ELSE SignalOrNone(sigs, SliceSig(num))

\* third loop: the copy statement appended to the guard of stages[num]
SliceStm(s, sigs, num) ==
    AHDL_MOVE(SignalOrNone(sigs, SliceSig(num + 1)), AHDL_VAR(SlicePrev(s, sigs, num)))

SliceStages(s) == SliceStart(s) .. (SliceEnd(s) - 1)

_insert_register_slices(ps, s, sigs) ==
    [ps EXCEPT !.stages =
        [k \in DOMAIN ps.stages |->
            IF (k - 1) \in SliceStages(s)
            THEN [ps.stages[k] EXCEPT
                     !.guard.slices = Append(@, SliceStm(s, sigs, k - 1))]
            ELSE ps.stages[k]]]

----------------------------------------------------------------------------
(* LoopPipelineStageBuilder.post_build and the end of build                *)

_add_last_signal_chain(ps, step) ==
    LET is_last == step = NumStages(ps) - 1
        stm == IF step = 0
               THEN <<AHDL_MOVE(last_signal(0), AHDL_OP1("Invert", LoopCond))>>
               ELSE IF ~is_last
                    THEN <<AHDL_MOVE(last_signal(step),
                                     AHDL_OP("BitAnd",
                                             AHDL_VAR(last_signal(step - 1)),
                                             AHDL_VAR(ready_signal(step))))>>
                    ELSE <<>>
    IN [ps EXCEPT !.stages[step + 1].ctrl = @ \o stm]

RECURSIVE AddLastChainFrom(_, _)
AddLastChainFrom(ps, step) ==
    IF step >= NumStages(ps) THEN ps
    ELSE AddLastChainFrom(_add_last_signal_chain(ps, step), step + 1)

LoopEndCond1_first(ps) == AHDL_VAR(last_signal(0))

\* loop_end_cond1: "stage" is the last stage of the pipeline
LoopEndCond1(ps) ==
    LET step == NumStages(ps) - 1
    IN IF step > 0
       THEN AHDL_OP("BitAnd", AHDL_VAR(last_signal(step - 1)),
                              AHDL_VAR(ready_signal(step)))
       ELSE AHDL_VAR(last_signal(step))

LoopEndCond(ps) ==
    AHDL_OP("Or", LoopEndCond1(ps), AHDL_OP1("Invert", LoopCondInit))

\* the last[i] registers the exit transition resets
LastResetIdx(ps) ==
    IF NumStages(ps) > 1 THEN 0 .. (NumStages(ps) - 2) ELSE {0}

\* an exit transition that resets no last register
LastResets_none(ps, i) == <<>>

RECURSIVE LastResets(_, _)
LastResets(ps, i) ==
    IF i \notin LastResetIdx(ps) THEN <<>>
    ELSE <<AHDL_MOVE(last_signal(i), AHDL_CONST(0))>> \o LastResets(ps, i + 1)

LoopPostBuild(ps) ==
    LET n     == NumStages(ps)
        p1    == AddLastChainFrom(ps, 0)
        p2    == [p1 EXCEPT !.stages[1].enable =
                      AHDL_MOVE(enable_signal(0), LoopCond)]
        ex    == exit_signal(n - 1)
        loop_end_stm == AHDL_IF(LoopEndCond(ps),
                                <<AHDL_MOVE(ex, AHDL_CONST(1))>>)
        pipe_end_stm == AHDL_TRANSITION_IF(AHDL_VAR(ex),
                            LastResets(ps, 0)
                            \o <<AHDL_MOVE(ex, AHDL_CONST(0)),
                                 AHDL_TRANSITION("loop_exit")>>)
    IN [p2 EXCEPT !.stages[n].ctrl = @ \o <<loop_end_stm, pipe_end_stm>>]

\* a build whose post_build is the one of the loop pipeline for every
\* pipeline state
PostBuild_loop(ps) == LoopPostBuild(ps)

IsTransition(c) == c[1] \in {"TRANSITION", "TRANSITION_IF"}

\* post_build, then "if not pstate.stages[-1].codes[-1].is_a(...)": a
\* pipeline that does not end in a transition loops back to itself.
PostBuild(ps) ==
    LET p == IF ps.is_finite_loop THEN LoopPostBuild(ps) ELSE ps
        n == NumStages(p)
        c == p.stages[n].ctrl
    IN IF c # <<>> /\ IsTransition(c[Len(c)])
       THEN p
       ELSE [p EXCEPT !.stages[n].ctrl = Append(@, AHDL_TRANSITION("pstate"))]

----------------------------------------------------------------------------
(* The builder, step by step (SpecBuild).                                  *)

RECURSIVE SortedSeq(_)
SortedSeq(S) ==
    IF S = {} THEN <<>>
    ELSE LET m == CHOOSE x \in S : \A y \in S : x <= y
         IN <<m>> \o SortedSeq(S \ {m})

\* sorted(self.scheduled_items.queue.items())
SortedSteps(q) == SortedSeq(DOMAIN q)

\* The item lists a cycle of the schedule can hold (never empty: a cycle is
\* a key of the queue only once an item was pushed for it).
ItemLists ==
    {<<"MOVE_REG">>,
     <<"SEQ_IO_READ", "MOVE_REG">>,
     <<"MOVE_NET", "SEQ_IO_WRITE", "MOVE_SUBSCRIPT">>,
     <<"PROCCALL", "SEQ_OTHER", "IF">>}

TagSets == {{"reg"}, {"net"}, {"reg", "induction"}}

Queues ==
    UNION {[S -> ItemLists] : S \in (SUBSET (0 .. MaxStep)) \ {{}}}

IdleRegs == [s \in {} |-> 0]

IdleData == [d |-> <<>>, cnt |-> 0, out |-> <<>>, sv |-> 0, sl |-> <<>>,
             count |-> 0]

IdleObs == [applied |-> <<>>, passed |-> <<>>, reads |-> <<>>,
            condHeld |-> FALSE, condBefore |-> FALSE]

InitBuild ==
    /\ pc = "make_stage"
    /\ queue \in Queues
    /\ \E f \in BOOLEAN : pstate = PipelineState(f)
    /\ sig = NoSig
    /\ hdlsigs = {}
    /\ regs = IdleRegs
    /\ en = <<>>
    /\ data = IdleData
    /\ obs = IdleObs
    /\ IdlePasses

\* One turn of the first loop of _build_pipeline_stages.
MakeStageStep ==
    /\ pc = "make_stage"
    /\ LET steps == SortedSteps(queue)
           k     == Len(pstate.stages) + 1
           step  == steps[k]
           app   == new_stage(pstate, step, queue[step])
       IN /\ k <= Len(steps)
          /\ IF NewStageAssert(app, step)
             THEN /\ pstate' = MakeStageRest(app, step)
                  /\ pc' = IF k = Len(steps) THEN "control" ELSE "make_stage"
             ELSE /\ pstate' = app
                  /\ pc' = "assert_failed"
    /\ UNCHANGED <<queue, sig, hdlsigs, regs, en, data, obs>>
    /\ UNCHANGED passVars

\* The stages whose control chain is still to be added.
NoChainYet(ps) == {i \in StageIdx(ps) : StageAt(ps, i).ctrl = <<>>}

\* One turn of "for stage in pstate.stages: self._add_control_chain".
ControlChainStep ==
    /\ pc = "control"
    /\ LET todo == NoChainYet(pstate)
           step == CHOOSE i \in todo : \A j \in todo : i <= j
       IN /\ pstate' = _add_control_chain(pstate, step)
          /\ pc' = IF todo = {step} THEN "slices" ELSE "control"
    /\ UNCHANGED <<queue, sig, hdlsigs, regs, en, data, obs>>
    /\ UNCHANGED passVars

\* The signals the use/def table of a pipeline of n stages can hold.
SigsOf(n) ==
    {[tags |-> t, d |-> d, uses |-> u, reads |-> <<>>] :
        t \in TagSets, d \in 0 .. (n - 1), u \in SUBSET (0 .. (n - 1))}

\* One turn of "for sig in usedef.get_all_def_sigs()".
SliceStep ==
    /\ pc = "slices"
    /\ \E s \in SigsOf(NumStages(pstate)) :
          IF NeedSlices(s)
          THEN LET sigs == GenSliceSigs(s)
               IN /\ hdlsigs' = sigs
                  /\ sig' = [s EXCEPT !.reads = UseReads(s, sigs)]
                  /\ pstate' = _insert_register_slices(pstate, s, sigs)
          ELSE /\ hdlsigs' = {}
               /\ sig' = [s EXCEPT !.reads = [num \in s.uses |-> OrigSig]]
               /\ pstate' = pstate
    /\ pc' = "post_build"
    /\ UNCHANGED <<queue, regs, en, data, obs>>
    /\ UNCHANGED passVars

PostBuildStep ==
    /\ pc = "post_build"
    /\ pstate' = PostBuild(pstate)
    /\ stg' = PipelineSTG
    /\ pc' = "built"
    /\ UNCHANGED <<queue, sig, hdlsigs, regs, en, data, obs, ssa>>

NextBuild == MakeStageStep \/ ControlChainStep \/ SliceStep \/ PostBuildStep

SpecBuild == InitBuild /\ [][NextBuild]_vars

----------------------------------------------------------------------------
(* The emitted hardware: evaluation of the built statements, one clock     *)
(* cycle at a time.  'net' signals (ready, enable) are combinational,      *)
(* 'reg' signals (valid, hold, last, exit) take their new value at the end *)
(* of the cycle; every right-hand side reads the values of the cycle.      *)

\* build(): _build_pipeline_stages then post_build, for a whole queue.
RECURSIVE MakeStagesFrom(_, _, _)
MakeStagesFrom(ps, q, k) ==
    LET steps == SortedSteps(q)
    IN IF k > Len(steps) THEN ps
       ELSE MakeStagesFrom(_make_stage(ps, steps[k], q[steps[k]]), q, k + 1)

RECURSIVE ControlChainFrom(_, _)
ControlChainFrom(ps, step) ==
    IF step >= NumStages(ps) THEN ps
    ELSE ControlChainFrom(_add_control_chain(ps, step), step + 1)

Build(q, finite, s) ==
    LET p1 == MakeStagesFrom(PipelineState(finite), q, 1)
        p2 == ControlChainFrom(p1, 0)
        p3 == IF s # NoSig /\ NeedSlices(s)
              THEN _insert_register_slices(p2, s, GenSliceSigs(s))
              ELSE p2
    IN PostBuild(p3)

\* The statement of stage `step` that assigns the net `s`.
NetDef(ps, s) ==
    LET c == StageAt(ps, s[2]).ctrl
        k == CHOOSE k \in DOMAIN c : c[k][1] = "MOVE" /\ c[k][2] = s
    IN c[k][3]

\* The loop condition: the loop runs data.count iterations and its counter
\* is advanced by the guarded code of stage 0.
CondVal(which, dt) ==
    IF which = "counter"
    THEN (IF dt.cnt < dt.count THEN 1 ELSE 0)
    ELSE (IF 0 < dt.count THEN 1 ELSE 0)

RECURSIVE Eval(_, _)
Eval(e, st) ==
    CASE e[1] = "CONST" -> e[2]
      [] e[1] = "VAR" ->
            LET s == e[2]
            IN IF s[1] = "ready" THEN Eval(NetDef(st.ps, s), st)
               ELSE IF s[1] = "enable"
                    THEN IF StageAt(st.ps, s[2]).enable # <<>>
                         THEN Eval(StageAt(st.ps, s[2]).enable[3], st)
                         ELSE st.en[s[2]]
                    ELSE st.regs[s]
      [] e[1] = "OP1" -> 1 - Eval(e[3], st)
      [] e[1] = "OP" ->
            IF e[2] = "BitAnd" THEN Eval(e[3], st) * Eval(e[4], st)
            ELSE IF Eval(e[3], st) + Eval(e[4], st) > 0 THEN 1 ELSE 0
      [] e[1] = "IF_EXP" ->
            IF Eval(e[2], st) = 1 THEN Eval(e[3], st) ELSE Eval(e[4], st)
      [] e[1] = "LOOP_COND" -> CondVal(e[2], st.dt)

\* Statements in program order; a later assignment to a register overrides
\* an earlier one of the same cycle.  acc = [regs, trans].
RECURSIVE ExecSeq(_, _, _, _)
ExecSeq(stmts, k, st, acc) ==
    IF k > Len(stmts) THEN acc
    ELSE LET c == stmts[k]
             nxt ==
               CASE c[1] = "MOVE" ->
                      IF IsRegSignal(c[2])
                      THEN [acc EXCEPT !.regs[c[2]] = Eval(c[3], st)]
                      ELSE acc
                 [] c[1] = "IF" ->
                      IF Eval(c[2], st) = 1 THEN ExecSeq(c[3], 1, st, acc) ELSE acc
                 [] c[1] = "TRANSITION_IF" ->
                      IF Eval(c[2], st) = 1 THEN ExecSeq(c[3], 1, st, acc) ELSE acc
                 [] c[1] = "TRANSITION" -> [acc EXCEPT !.trans = c[2]]
         IN ExecSeq(stmts, k + 1, st, nxt)

RECURSIVE CtrlFrom(_, _)
CtrlFrom(ps, step) ==
    IF step >= NumStages(ps) THEN <<>>
    ELSE StageAt(ps, step).ctrl \o CtrlFrom(ps, step + 1)

CurState == [ps |-> pstate, regs |-> regs, en |-> en, dt |-> data]

\* ready[i] in the current cycle
Ready(i) == Eval(AHDL_VAR(ready_signal(i)), CurState)

\* whether the AHDL_PIPELINE_GUARD of stage i executes in the current cycle
Fires(i) == Eval(StageAt(pstate, i).guard.cond, CurState) = 1

\* The iteration (value) stage i works on when its guard executes: stage 0
\* takes the next input, a later stage what the stage before it latched.
Tok(i) == IF i = 0 THEN data.cnt + 1 ELSE data.d[i - 1]

\* The value the analysed signal carries in the current cycle.
CurSigVal ==
    IF "net" \in sig.tags
    THEN (IF Fires(sig.d) THEN Tok(sig.d) ELSE 0)
    ELSE data.sv

SrcVal(s) ==
    IF s = OrigSig THEN CurSigVal
    ELSE IF s[1] = "slice" THEN data.sl[s[2]] ELSE 0 - 1

\* The slice registers after the cycle: the copies in the guards that execute.
NextSlices ==
    [k \in DOMAIN data.sl |->
        IF \E i \in StageIdx(pstate) :
              /\ Fires(i)
              /\ \E j \in DOMAIN StageAt(pstate, i).guard.slices :
                    StageAt(pstate, i).guard.slices[j][2] = SliceSig(k)
        THEN LET i == CHOOSE i \in StageIdx(pstate) :
                        /\ Fires(i)
                        /\ \E j \in DOMAIN StageAt(pstate, i).guard.slices :
                              StageAt(pstate, i).guard.slices[j][2] = SliceSig(k)
                 sl == StageAt(pstate, i).guard.slices
                 j == CHOOSE j \in DOMAIN sl : sl[j][2] = SliceSig(k)
             IN SrcVal(sl[j][3][2])
        ELSE data.sl[k]]

\* The analysed signal's own register after the cycle (its defining
\* statement is guarded code of stage sig.d).
NextSigVal ==
    IF sig = NoSig \/ ~Fires(sig.d) THEN data.sv
    ELSE IF "induction" \in sig.tags THEN data.sv + 1 ELSE Tok(sig.d)

\* The exit condition of a finite loop, on the values of the current cycle.
ExitCondNow ==
    LET n == NumStages(pstate)
    IN \/ IF n > 1
          THEN regs[last_signal(n - 2)] = 1 /\ Ready(n - 1) = 1
          ELSE regs[last_signal(0)] = 1
       \/ ~(0 < data.count)

Cycle ==
    /\ pc = "run"
    /\ Fires(0) => data.cnt < MaxTokens
    /\ LET n   == NumStages(pstate)
           res == ExecSeq(CtrlFrom(pstate, 0), 1, CurState,
                          [regs |-> regs, trans |-> "none"])
       IN /\ regs' = res.regs
          /\ pc' = IF res.trans = "loop_exit" THEN "exited" ELSE "run"
          /\ data' = [data EXCEPT
                        !.d = [i \in DOMAIN data.d |->
                                  IF Fires(i) THEN Tok(i) ELSE data.d[i]],
                        !.cnt = IF Fires(0) THEN @ + 1 ELSE @,
                        !.out = IF Fires(n - 1) THEN Append(@, Tok(n - 1)) ELSE @,
                        !.sv = NextSigVal,
                        !.sl = NextSlices]
          /\ obs' = [obs EXCEPT
                        !.applied = [i \in DOMAIN obs.applied |->
                                        IF Fires(i) THEN obs.applied[i] + 1
                                        ELSE obs.applied[i]],
                        !.passed = [i \in DOMAIN obs.passed |->
                                        IF res.regs[valid_signal(i)] = 1
                                        THEN obs.passed[i] + 1
                                        ELSE obs.passed[i]],
                        !.reads = [u \in DOMAIN obs.reads |->
                                        IF Fires(u)
                                        THEN <<Tok(u), SrcVal(sig.reads[u])>>
                                        ELSE obs.reads[u]],
                        !.condHeld = @ \/ ExitCondNow,
                        !.condBefore = obs.condHeld]
    /\ en' \in [DOMAIN en -> {0, 1}]
    /\ UNCHANGED <<queue, pstate, sig, hdlsigs>>
    /\ UNCHANGED passVars

RegSigs(n) ==
    {Sig(nm, i) : nm \in {"valid", "hold", "last"}, i \in 0 .. (n - 1)}
    \cup {exit_signal(n - 1)}

\* The stages whose enable net is an input of the pipeline.
EnableInputs(ps) ==
    {i \in StageIdx(ps) : StageAt(ps, i).has_enable /\ StageAt(ps, i).enable = <<>>}

\* The schedules of the pipelines that are run: every cycle 0..n-1 holds a
\* register write, with or without a port access.
RunItemLists ==
    {<<"MOVE_REG">>,
     <<"SEQ_IO_READ", "MOVE_REG">>,
     <<"MOVE_NET", "SEQ_IO_WRITE", "MOVE_SUBSCRIPT">>}

RunQueues(lists) == UNION {[0 .. (n - 1) -> lists] : n \in 1 .. MaxStages}

\* The pipeline state is entered with every control register at 0.
InitRunWith(q, finite, s, count) ==
    LET ps == Build(q, finite, s)
        n  == NumStages(ps)
    IN /\ pc = "run"
       /\ queue = q
       /\ pstate = ps
       /\ sig = IF s = NoSig THEN NoSig
                ELSE [s EXCEPT !.reads =
                         IF NeedSlices(s) THEN UseReads(s, GenSliceSigs(s))
                         ELSE [num \in s.uses |-> OrigSig]]
       /\ hdlsigs = IF s # NoSig /\ NeedSlices(s) THEN GenSliceSigs(s) ELSE {}
       /\ regs = [r \in RegSigs(n) |-> 0]
       /\ en \in [EnableInputs(ps) -> {0, 1}]
       /\ data = [d |-> [i \in 0 .. (n - 1) |-> 0], cnt |-> 0, out |-> <<>>,
                  sv |-> IF "induction" \in s.tags THEN 1 ELSE 0,
                  sl |-> [k \in {x[2] : x \in (IF s # NoSig /\ NeedSlices(s)
                                              THEN GenSliceSigs(s) ELSE {})} |-> 0],
                  count |-> count]
       /\ obs = [applied |-> [i \in 0 .. (n - 1) |-> 0],
                 passed |-> [i \in 0 .. (n - 1) |-> 0],
                 reads |-> [u \in {u \in s.uses : u > s.d} |-> <<0, 0>>],
                 condHeld |-> FALSE, condBefore |-> FALSE]
       /\ ssa = <<>>
       /\ stg = PipelineSTG

InitRun ==
    \E q \in RunQueues(RunItemLists), finite \in BOOLEAN, count \in 0 .. MaxTokens :
        /\ (~finite => count = MaxTokens)
        /\ InitRunWith(q, finite, NoSig, count)

NextRun == Cycle

SpecRun == InitRun /\ [][NextRun]_vars

InitSlice ==
    \E q \in RunQueues({<<"MOVE_REG">>}), finite \in BOOLEAN, count \in 0 .. MaxTokens :
        \E s \in SigsOf(Cardinality(DOMAIN q)) :
            /\ (~finite => count = MaxTokens)
            /\ InitRunWith(q, finite, s, count)

SpecSlice == InitSlice /\ [][NextRun]_vars

----------------------------------------------------------------------------
(* Properties of the pipeline control synthesizer.                         *)

LastIdx == NumStages(pstate) - 1

\* the control chain of every stage has been added
ChainBuilt == pc \in {"slices", "post_build", "built"}

\* the items scheduled for stage i access a port
HasPortAccess(i) ==
    \E k \in DOMAIN queue[i] : queue[i][k] \in {"SEQ_IO_READ", "SEQ_IO_WRITE"}

HasPortWrite(i) == \E k \in DOMAIN queue[i] : queue[i][k] = "SEQ_IO_WRITE"

\* ready[i+1], or the constant 1 behind the last stage
ReadyNext(i) ==
    IF i = LastIdx THEN AHDL_CONST(1) ELSE AHDL_VAR(ready_signal(i + 1))

\* C1 as stated: in a cycle in which ready[i+1] is false, valid[i+1] keeps
\* its value.
C1_ValidHeldWhileNotReady ==
    [][pc = "run" =>
         \A j \in StageIdx(pstate) \ {0} :
             Ready(j) = 0 => regs'[valid_signal(j)] = regs[valid_signal(j)]]_vars

\* C1 amended: in a cycle in which ready[j] is false (j >= 1), valid[j] is 0
\* after the cycle, and hold[j] is 1 after it exactly when it was 1 already
\* or valid[j-1] was 1: the waiting value is remembered by hold, not valid.
C1_ValidDropsHoldKeeps ==
    [][pc = "run" =>
         \A j \in StageIdx(pstate) \ {0} :
             Ready(j) = 0 =>
                 /\ regs'[valid_signal(j)] = 0
                 /\ regs'[hold_signal(j)] =
                       (IF regs[hold_signal(j)] = 1 \/ regs[valid_signal(j - 1)] = 1
                        THEN 1 ELSE 0)]_vars

\* C1 witness: a second stalled cycle in a row is about to run for a stage
\* that latched a waiting value into hold in the first one.
C1_Witness ==
    /\ pc = "run"
    /\ \E j \in StageIdx(pstate) \ {0} :
          Ready(j) = 0 /\ regs[hold_signal(j)] = 1 /\ regs[valid_signal(j)] = 0

\* C2 as stated: the values leave the last stage exactly once each and in
\* the order they entered stage 0 (values are numbered 1, 2, ... as the
\* guarded code of stage 0 takes them).
C2_NoValueLostOrDuplicated ==
    \A k \in 1 .. Len(data.out) : data.out[k] = k

C4_HoldLatch ==
    [][pc = "run" =>
         \A i \in StageIdx(pstate) :
             StageAt(pstate, i).has_hold =>
                 regs'[hold_signal(i)] =
                     IF regs[hold_signal(i)] = 1
                     THEN 1 - Ready(i)
                     ELSE (1 - Ready(i)) * regs[valid_signal(i - 1)]]_vars

\* C4 witness: a stage whose hold latch is set while it is ready again, so
\* that the latch is about to be released.
C4_Witness ==
    /\ pc = "run"
    /\ \E i \in StageIdx(pstate) :
          StageAt(pstate, i).has_hold /\ regs[hold_signal(i)] = 1 /\ Ready(i) = 1

\* C5 as stated: every cycle valid[i] is assigned, for every stage i > 0 from
\* hold[i] ? ready[i] : (ready[i] AND valid[i-1]), for i = 0 from ready[0].
C5_ValidAsClaimed ==
    [][pc = "run" =>
         \A i \in StageIdx(pstate) :
             regs'[valid_signal(i)] =
                 IF i = 0 THEN Ready(0)
                 ELSE IF regs[hold_signal(i)] = 1 THEN Ready(i)
                      ELSE Ready(i) * regs[valid_signal(i - 1)]]_vars

\* C5 amended: the same for every stage but the last; the valid register of
\* the last stage is never assigned.
C5_ValidOfNonLastStages ==
    [][pc = "run" =>
         \A i \in StageIdx(pstate) :
             regs'[valid_signal(i)] =
                 IF i = LastIdx THEN regs[valid_signal(i)]
                 ELSE IF i = 0 THEN Ready(0)
                      ELSE IF regs[hold_signal(i)] = 1 THEN Ready(i)
                           ELSE Ready(i) * regs[valid_signal(i - 1)]]_vars

\* C5 witness: a middle stage passed a value on the release of its hold
\* latch, and the last stage's valid register is still 0.
C5_Witness ==
    /\ pc = "run"
    /\ \E i \in StageIdx(pstate) :
          /\ 0 < i /\ i < LastIdx
          /\ regs[valid_signal(i)] = 1
          /\ obs.applied[i] > 0
    /\ regs[valid_signal(LastIdx)] = 0

\* C6: the exit transition of a finite loop is taken only after the exit
\* condition held in an earlier cycle, and when it is taken no stage has a
\* valid or held iteration left.
C6_ExitOnlyWhenDrained ==
    pc = "exited" =>
        /\ obs.condBefore
        /\ \A i \in StageIdx(pstate) :
              regs[valid_signal(i)] = 0 /\ regs[hold_signal(i)] = 0

\* C6 witness: a loop of at least three stages was left after two or more
\* iterations entered it and all of them went through the last stage.
C6_Witness ==
    /\ pc = "exited"
    /\ NumStages(pstate) >= 3
    /\ data.cnt >= 2
    /\ Len(data.out) = data.cnt

\* the distance from the definition of the analysed signal to its last use
UseDistance == SetMax(sig.uses \cup {sig.d}) - sig.d

IsWireOrInduction == "net" \in sig.tags \/ "induction" \in sig.tags

SlicesNeeded == UseDistance > 1 \/ (IsWireOrInduction /\ UseDistance > 0)

SlicesInserted == pc \in {"post_build", "built"}

\* the copy statements in the guard of stage i
SliceCopies(i) == StageAt(pstate, i).guard.slices

RECURSIVE SumOver(_, _)
SumOver(S, f) ==
    IF S = {} THEN 0
    ELSE LET x == CHOOSE x \in S : TRUE IN f[x] + SumOver(S \ {x}, f)

NumCopies == SumOver(StageIdx(pstate), [i \in StageIdx(pstate) |-> Len(SliceCopies(i))])

\* C7 as stated: a chain of exactly `distance` slice registers, one copy
\* statement per intervening stage.
C7_DistanceSlices ==
    (SlicesInserted /\ SlicesNeeded) =>
        Cardinality(hdlsigs) = UseDistance /\ NumCopies = UseDistance

\* C7 amended: a wire or induction signal gets `distance` slices, copied in
\* the stages d .. d+distance-1; an ordinary register gets distance-1
\* slices, copied in the stages d+1 .. d+distance-1 (stage d+1 reads the
\* register itself).  The first copy reads the signal, every other copy the
\* slice of its own stage, and the copy in stage k writes slice k+1.
C7_SliceChain ==
    SlicesInserted =>
        LET first == IF IsWireOrInduction THEN sig.d ELSE sig.d + 1
            last  == sig.d + UseDistance
        IN IF SlicesNeeded
           THEN /\ hdlsigs = {SliceSig(k) : k \in (first + 1) .. last}
                /\ Cardinality(hdlsigs) =
                       (IF IsWireOrInduction THEN UseDistance ELSE UseDistance - 1)
                /\ \A i \in StageIdx(pstate) :
                      SliceCopies(i) =
                          IF i \in first .. (last - 1)
                          THEN <<AHDL_MOVE(SliceSig(i + 1),
                                           AHDL_VAR(IF i = first THEN OrigSig
                                                    ELSE SliceSig(i)))>>
                          ELSE <<>>
           ELSE /\ hdlsigs = {}
                /\ \A i \in StageIdx(pstate) : SliceCopies(i) = <<>>

\* C7 witness: an ordinary register used two stages after its definition.
C7_Witness ==
    /\ pc = "built"
    /\ sig.tags = {"reg"} /\ UseDistance = 2
    /\ Cardinality(hdlsigs) = 1

\* C8: on a pipeline that advances one stage per cycle, a use in a stage
\* after the defining one reads the value of the iteration the stage is
\* working on; a rewritten use in stage n reads slice n, which the guard of
\* stage n-1 copies from that stage's slice or from the signal.
C8_UseReadsOwnIteration ==
    /\ \A u \in DOMAIN obs.reads : obs.reads[u][2] = obs.reads[u][1]
    /\ pc \in {"run", "exited"} =>
          \A u \in DOMAIN obs.reads :
              sig.reads[u] # OrigSig =>
                  /\ sig.reads[u] = SliceSig(u)
                  /\ \E k \in DOMAIN SliceCopies(u - 1) :
                        /\ SliceCopies(u - 1)[k][2] = SliceSig(u)
                        /\ SliceCopies(u - 1)[k][3] \in
                               {AHDL_VAR(OrigSig), AHDL_VAR(SliceSig(u - 1))}

\* C8 witness: the second iteration was read through a slice two or more
\* stages after the definition.
C8_Witness ==
    \E u \in DOMAIN obs.reads :
        /\ u >= sig.d + 2
        /\ sig.reads[u] = SliceSig(u)
        /\ obs.reads[u] = <<2, 2>>

\* the guarded code of stage i is exactly the scheduled register writes,
\* memory writes, procedure calls (and ifs) of the stage
GuardHoldsSideEffects(i) ==
    /\ \A k \in DOMAIN StageAt(pstate, i).codes :
          StageAt(pstate, i).codes[k] \notin {"MOVE_REG", "MOVE_SUBSCRIPT", "PROCCALL"}
    /\ \A k \in DOMAIN queue[i] :
          queue[i][k] \in {"MOVE_REG", "MOVE_SUBSCRIPT", "PROCCALL"} =>
              \E j \in DOMAIN StageAt(pstate, i).guard.codes :
                  StageAt(pstate, i).guard.codes[j] = queue[i][k]

\* C9 as stated: the side effects of a stage are in its guard, and the
\* guard of a stage has executed once for every value the stage passed on
\* (valid[i] set) or still holds (hold[i] set).
C9_SideEffectOncePerValue ==
    pc \in {"run", "exited"} =>
        \A i \in StageIdx(pstate) :
            /\ GuardHoldsSideEffects(i)
            /\ i < LastIdx =>
                  obs.applied[i] = obs.passed[i] + regs[hold_signal(i)]

\* the scheduled cycles skip a number (or do not start at 0)
QueueHasGap == DOMAIN queue # 0 .. (Cardinality(DOMAIN queue) - 1)

\* C10: while no assertion has failed the stage list is dense and
\* zero-indexed, and a schedule that skips a cycle never gets past the
\* stage-making loop: it fails the assertion of new_stage.
C10_StagesDense ==
    /\ pc # "assert_failed" =>
          \A i \in StageIdx(pstate) : StageAt(pstate, i).step = i
    /\ QueueHasGap => pc \in {"make_stage", "assert_failed"}
    /\ pc = "assert_failed" => QueueHasGap

\* C10 witness: the schedule with items at cycles 0 and 2 only has failed
\* the assertion after stage 0 was made.
C10_Witness ==
    /\ pc = "assert_failed"
    /\ DOMAIN queue = {0, 2}
    /\ Len(pstate.stages) = 2

----------------------------------------------------------------------------
(* Part 2: the SSA builder (compiler/ssa.py).                              *)
(*   SpecSSA    SSAFormTransformer.process, one action per worklist turn   *)
(*              of _insert_phi and one per later phase                     *)
(* Blocks are numbered 1..n in an order in which every edge goes forward   *)
(* (block.succs holds the normal edges; loop-back edges are kept apart).   *)

\* largest number of blocks of a scope
MaxBlocks == 4

\* largest number of successors of a block
MaxSuccs == 3

\* A symbol, and the version symbol scope.inherit_sym(sym, name + '#' + i).
Symbol(name) == <<name>>

inherit_sym(sym, i) == <<sym[1], i>>

\* the symbol a version was inherited from (its ancestor)
Ancestor(sym) == <<sym[1]>>

IsVersion(sym) == Len(sym) = 2

\* Statements: a MOVE defines var and uses uses; a CJUMP only uses; a PHI
\* defines var and has (symbol, predecessor block) argument pairs.
MOVE(dst, uses) == [op |-> "MOVE", var |-> dst, uses |-> uses, args |-> <<>>]

CJUMP(uses) == [op |-> "CJUMP", var |-> <<>>, uses |-> uses, args |-> <<>>]

PHI(var) == [op |-> "PHI", var |-> var, uses |-> <<>>, args |-> <<>>]

IsPhi(stm) == stm.op = "PHI"

\* The control-flow graphs: every block but the entry has a predecessor and
\* a block ends in a jump, a conditional jump or a multiway jump.
SuccSets(n) == {S \in SUBSET (2 .. n) : Cardinality(S) <= MaxSuccs}

CFGs ==
    UNION {{g \in [1 .. n -> SuccSets(n)] :
               /\ \A b \in 1 .. n : \A c \in g[b] : b < c
               /\ \A c \in 2 .. n : \E b \in 1 .. n : c \in g[b]} :
           n \in 1 .. MaxBlocks}

Preds(g, c) == {b \in DOMAIN g : c \in g[b]}

\* DominatorTreeBuilder: dom[b] is the set of blocks that dominate b (b
\* included); the blocks are visited in their order, predecessors first.
RECURSIVE DominatorsFrom(_, _, _)
DominatorsFrom(g, b, dom) ==
    IF b > Len(g) THEN dom
    ELSE DominatorsFrom(g, b + 1,
             [dom EXCEPT ![b] =
                 IF Preds(g, b) = {} THEN {b}
                 ELSE {b} \cup {a \in DOMAIN g : \A p \in Preds(g, b) : a \in dom[p]}])

Dominators(g) == DominatorsFrom(g, 1, [b \in DOMAIN g |-> {}])

StrictlyDominates(dom, a, b) == a # b /\ a \in dom[b]

\* the children of block b in the dominator tree
get_children_of(dom, b) ==
    {c \in DOMAIN dom :
        /\ StrictlyDominates(dom, b, c)
        /\ \A a \in DOMAIN dom : StrictlyDominates(dom, a, c) => a \in dom[b]}

\* DominanceFrontierBuilder: b dominates a predecessor of n and does not
\* strictly dominate n.
dominance_frontier(g, dom, b) ==
    {n \in DOMAIN g :
        /\ \E p \in Preds(g, n) : b \in dom[p]
        /\ ~StrictlyDominates(dom, b, n)}

\* _compute_dominance_frontier: self.tree and self.dominance_frontier
DomTree(g) ==
    LET dom == Dominators(g)
    IN [dom |-> dom,
        children |-> [b \in DOMAIN g |-> get_children_of(dom, b)],
        df |-> [b \in DOMAIN g |-> dominance_frontier(g, dom, b)]]

\* _is_always_single_assigned without sym.is_temp()
_is_always_single_assigned_no_temp(kinds, sym) ==
    kinds[sym[1]] \in {"condition", "param", "function"}

_is_always_single_assigned(kinds, sym) ==
    kinds[sym[1]] \in {"condition", "temp", "param", "function"}

\* The statement lists of a block of the scopes SpecSSA transforms: the
\* block assigns x, branches on x, or updates x.
SSAStmLists ==
    {<<MOVE(Symbol("x"), <<>>)>>,
     <<CJUMP(<<Symbol("x")>>)>>,
     <<MOVE(Symbol("x"), <<Symbol("x")>>)>>}

\* The statement lists of the scopes SpecSSAExempt transforms: x is an
\* ordinary variable, t a symbol of an always single assigned kind.
ExemptStmLists ==
    {<<MOVE(Symbol("t"), <<Symbol("x")>>)>>,
     <<MOVE(Symbol("x"), <<Symbol("t")>>)>>}

ExemptKinds ==
    {[n \in {"x", "t"} |-> IF n = "x" THEN "plain" ELSE k] :
        k \in {"condition", "temp", "param", "function"}}

\* usedef: the symbols a block defines / the blocks defining a symbol
DefsOfStms(stms) == {stms[k].var : k \in {j \in DOMAIN stms : stms[j].var # <<>>}}

UsesOfStms(stms) ==
    UNION {{stms[k].uses[j] : j \in DOMAIN stms[k].uses} : k \in DOMAIN stms}

SymsOfScope(stms) ==
    UNION {DefsOfStms(stms[b]) \cup UsesOfStms(stms[b]) : b \in DOMAIN stms}

NoSym == <<>>

\* The scope as SSAFormTransformer.process finds it, after
\* _compute_dominance_frontier.
NewSSAScope(g, tree, kinds, stms) ==
    [g |-> g, kinds |-> kinds, stms |-> stms,
     dom |-> tree.dom, children |-> tree.children, df |-> tree.df,
     sym_defs_blk |-> [sym \in SymsOfScope(stms) |->
                          {b \in DOMAIN g : sym \in DefsOfStms(stms[b])}],
     blk_defs_sym |-> [b \in DOMAIN g |-> DefsOfStms(stms[b])],
     phis |-> [b \in DOMAIN g |-> {}],
     todo |-> SymsOfScope(stms), cur |-> NoSym, failed |-> FALSE]

IdlePipeline ==
    /\ queue = <<>>
    /\ pstate = PipelineState(FALSE)
    /\ sig = NoSig
    /\ hdlsigs = {}
    /\ regs = IdleRegs
    /\ en = <<>>
    /\ data = IdleData
    /\ obs = IdleObs

pipeVars == <<queue, pstate, sig, hdlsigs, regs, en, data, obs>>

InitSSAWith(lists, kindsets) ==
    /\ pc = "insert_phi"
    /\ \E g \in CFGs, kinds \in kindsets :
          LET tree == DomTree(g)
          IN \E stms \in [DOMAIN g -> lists] :
                ssa = NewSSAScope(g, tree, kinds, stms)
    /\ stg = <<>>
    /\ IdlePipeline

InitSSA == InitSSAWith(SSAStmLists, {[n \in {"x"} |-> "plain"]})

\* _insert_phi: the next turn of "for sym, def_blocks in ...items()".
InsertPhiSym ==
    /\ pc = "insert_phi"
    /\ ssa.cur = NoSym
    /\ \E sym \in ssa.todo :
          ssa' = [ssa EXCEPT !.todo = @ \ {sym},
                             !.cur = IF _is_always_single_assigned(ssa.kinds, sym)
                                     THEN NoSym ELSE sym]
    /\ UNCHANGED <<pc, stg, pipeVars>>

\* NewPhiBlocks without the test "sym not in phis[df]"
NewPhiBlocks_again(sc, def_block, sym) == sc.df[def_block]

\* the blocks of the frontier of def_block that get a phi for sym now
NewPhiBlocks(sc, def_block, sym) == {df \in sc.df[def_block] : sym \notin sc.phis[df]}

\* _insert_phi: one turn of "while def_blocks", with its loop over the
\* dominance frontier of the popped block.
InsertPhiAt(sc, def_block, sym) ==
    LET new == NewPhiBlocks(sc, def_block, sym)
    IN [sc EXCEPT
          !.sym_defs_blk[sym] =
              (@ \ {def_block}) \cup {df \in new : sym \notin sc.blk_defs_sym[df]},
          !.phis = [b \in DOMAIN @ |-> IF b \in new THEN @[b] \cup {sym} ELSE @[b]],
          !.stms = [b \in DOMAIN @ |-> IF b \in new THEN <<PHI(sym)>> \o @[b] ELSE @[b]],
          !.blk_defs_sym = [b \in DOMAIN @ |->
                               IF b \in new THEN @[b] \cup {sym} ELSE @[b]]]

InsertPhiPop ==
    /\ pc = "insert_phi"
    /\ ssa.cur # NoSym
    /\ IF ssa.sym_defs_blk[ssa.cur] = {}
       THEN ssa' = [ssa EXCEPT !.cur = NoSym]
       ELSE \E def_block \in ssa.sym_defs_blk[ssa.cur] :
               ssa' = InsertPhiAt(ssa, def_block, ssa.cur)
    /\ UNCHANGED <<pc, stg, pipeVars>>

InsertPhiDone ==
    /\ pc = "insert_phi"
    /\ ssa.cur = NoSym /\ ssa.todo = {}
    /\ pc' = "rename"
    /\ UNCHANGED <<ssa, stg, pipeVars>>

Top(stack) == stack[Len(stack)]

Pop(stack) == SubSeq(stack, 1, Len(stack) - 1)

SetMin(S) == CHOOSE x \in S : \A y \in S : x <= y

\* RenameStm with the new version taken from the top of the stack instead
\* of the counter of the symbol
RenameStm_stack_top(b, k, st) ==
    LET stm  == st.stms[b][k]
        used == IF IsPhi(stm) THEN st
                ELSE [st EXCEPT !.new_syms = @ \cup
                         {<<<<b, k, j>>,
                            inherit_sym(stm.uses[j], Top(st.stack[stm.uses[j]]))>> :
                          j \in DOMAIN stm.uses}]
        d    == stm.var
        i    == Top(used.stack[d]) + 1
    IN IF d = NoSym THEN used
       ELSE [used EXCEPT !.count[d] = i,
                         !.stack[d] = Append(@, i),
                         !.new_syms = @ \cup {<<<<b, k, 0>>, inherit_sym(d, i)>>}]

\* _rename_rec, first loop: statement k of the block.  A TEMP is named by
\* its place <<block, statement, 0>> (the definition) or
\* <<block, statement, j>> (the j-th use); st = [count, stack, new_syms, stms].
RenameStm(b, k, st) ==
    LET stm  == st.stms[b][k]
        used == IF IsPhi(stm) THEN st
                ELSE [st EXCEPT !.new_syms = @ \cup
                         {<<<<b, k, j>>,
                            inherit_sym(stm.uses[j], Top(st.stack[stm.uses[j]]))>> :
                          j \in DOMAIN stm.uses}]
        d    == stm.var
        i    == used.count[d] + 1
    IN IF d = NoSym THEN used
       ELSE [used EXCEPT !.count[d] = i,
                         !.stack[d] = Append(@, i),
                         !.new_syms = @ \cup {<<<<b, k, 0>>, inherit_sym(d, i)>>}]

RECURSIVE RenameStmsFrom(_, _, _)
RenameStmsFrom(b, k, st) ==
    IF k > Len(st.stms[b]) THEN st
    ELSE RenameStmsFrom(b, k + 1, RenameStm(b, k, st))

\* ExtendPhis with the argument's version read from the counter of the
\* symbol instead of the top of its stack
ExtendPhis_count(g, b, st) ==
    [st EXCEPT !.stms =
        [c \in DOMAIN @ |->
            IF c \in g[b]
            THEN [k \in DOMAIN @[c] |->
                     LET phi == @[c][k]
                     IN IF IsPhi(phi) /\ st.count[phi.var] > 0
                        THEN [phi EXCEPT !.args =
                                 Append(@, <<inherit_sym(phi.var, st.count[phi.var]), b>>)]
                        ELSE phi]
            ELSE @[c]]]

\* _rename_rec, "into successors": every phi of a successor gets the
\* version on top of the stack as the argument of this predecessor.
ExtendPhis(g, b, st) ==
    [st EXCEPT !.stms =
        [c \in DOMAIN @ |->
            IF c \in g[b]
            THEN [k \in DOMAIN @[c] |->
                     LET phi == @[c][k]
                     IN IF IsPhi(phi) /\ Top(st.stack[phi.var]) > 0
                        THEN [phi EXCEPT !.args =
                                 Append(@, <<inherit_sym(phi.var, Top(st.stack[phi.var])), b>>)]
                        ELSE phi]
            ELSE @[c]]]

\* PopDefsFrom that pops for the definitions that are not phis only
RECURSIVE PopDefsFrom_not_phi(_, _, _)
PopDefsFrom_not_phi(b, k, st) ==
    IF k > Len(st.stms[b]) THEN st
    ELSE LET d == st.stms[b][k].var
         IN PopDefsFrom_not_phi(b, k + 1,
                IF d = NoSym \/ IsPhi(st.stms[b][k]) THEN st
                ELSE [st EXCEPT !.stack[d] = Pop(@)])

\* PopDefsFrom that leaves the versions of the block on the stacks
PopDefsFrom_none(b, k, st) == st

\* _rename_rec, last loop: one pop per definition of the block
RECURSIVE PopDefsFrom(_, _, _)
PopDefsFrom(b, k, st) ==
    IF k > Len(st.stms[b]) THEN st
    ELSE LET d == st.stms[b][k].var
         IN PopDefsFrom(b, k + 1,
                IF d = NoSym THEN st ELSE [st EXCEPT !.stack[d] = Pop(@)])

RECURSIVE _rename_rec(_, _, _)
RECURSIVE RenameChildren(_, _, _)
RenameChildren(sc, todo, st) ==
    IF todo = {} THEN st
    ELSE LET c == SetMin(todo)
         IN RenameChildren(sc, todo \ {c}, _rename_rec(sc, c, st))

_rename_rec(sc, block, st) ==
    LET s1 == RenameStmsFrom(block, 1, st)
        s2 == ExtendPhis(sc.g, block, s1)
        s3 == RenameChildren(sc, sc.children[block], s2)
    IN PopDefsFrom(block, 1, s3)

\* the symbol the pair of new_syms gives the TEMP at place pos, if it is
\* assigned ("var.sym = sym"; skipped for an always single assigned symbol)
RenamedSym(kinds, new_syms, pos, old) ==
    IF \E pr \in new_syms :
          pr[1] = pos /\ ~_is_always_single_assigned(kinds, pr[2])
    THEN (CHOOSE pr \in new_syms : pr[1] = pos)[2]
    ELSE old

_rename(sc) ==
    LET syms == SymsOfScope(sc.stms)
        st0  == [count |-> [sym \in syms |-> 0],
                 stack |-> [sym \in syms |-> <<0>>],
                 new_syms |-> {}, stms |-> sc.stms]
        st1  == _rename_rec(sc, 1, st0)
    IN [sc EXCEPT !.stms =
          [b \in DOMAIN st1.stms |->
              [k \in DOMAIN st1.stms[b] |->
                  LET stm == st1.stms[b][k]
                  IN [stm EXCEPT
                        !.var = IF @ = NoSym THEN @
                                ELSE RenamedSym(sc.kinds, st1.new_syms, <<b, k, 0>>, @),
                        !.uses = [j \in DOMAIN @ |->
                                     RenamedSym(sc.kinds, st1.new_syms, <<b, k, j>>, @[j])]]]]]

Rename ==
    /\ pc = "rename"
    /\ ssa' = _rename(ssa)
    /\ pc' = "remove_useless_phi"
    /\ UNCHANGED <<stg, pipeVars>>

\* A phi taken out of its block stays an object the use/def table and the
\* worklist can still hold; it is kept in place with this mark.
RemovedPhi(phi) == [phi EXCEPT !.op = "PHI_REMOVED"]

IsPhiObject(stm) == stm.op \in {"PHI", "PHI_REMOVED"}

\* PhiPlacesFrom that puts only the first phi of the scope on the worklist
PhiPlacesFrom_first(stms, b, k) ==
    LET ps == {pl \in UNION {{<<c, j>> : j \in DOMAIN stms[c]} : c \in DOMAIN stms} :
                  IsPhi(stms[pl[1]][pl[2]])}
        IsFirst(pl) == \A ql \in ps : pl[1] < ql[1] \/ (pl[1] = ql[1] /\ pl[2] <= ql[2])
    IN IF ps = {} THEN <<>> ELSE <<CHOOSE pl \in ps : IsFirst(pl)>>

\* the places <<block, index>> of the phis of the scope, in block order
RECURSIVE PhiPlacesFrom(_, _, _)
PhiPlacesFrom(stms, b, k) ==
    IF b > Len(stms) THEN <<>>
    ELSE IF k > Len(stms[b]) THEN PhiPlacesFrom(stms, b + 1, 1)
    ELSE (IF IsPhi(stms[b][k]) THEN <<<<b, k>>>> ELSE <<>>)
         \o PhiPlacesFrom(stms, b, k + 1)

\* [arg.sym for arg, blk in phi.args if arg.sym is not phi.var.sym]
NonSelfArgs(phi) ==
    LET IsOther(a) == a[1] # phi.var
    IN SelectSeq(phi.args, IsOther)

\* get_sym_if_having_only_1 that wants the one symbol from at least two
\* predecessors
get_sym_if_having_only_1_pair(phi) ==
    LET syms == NonSelfArgs(phi)
    IN IF Len(syms) >= 2 /\ \A k \in DOMAIN syms : syms[k][1] = syms[1][1]
       THEN syms[1][1]
       ELSE NoSym

get_sym_if_having_only_1(phi) ==
    LET syms == NonSelfArgs(phi)
    IN IF syms # <<>> /\ \A k \in DOMAIN syms : syms[k][1] = syms[1][1]
       THEN syms[1][1]
       ELSE NoSym

StmUses(stm, sym) ==
    \/ \E j \in DOMAIN stm.uses : stm.uses[j] = sym
    \/ \E j \in DOMAIN stm.args : stm.args[j][1] = sym

\* VarReplacer.replace_uses(dst, src, usedef): every use of dst in a
\* statement the use/def table knows becomes src.
ReplaceInStm(stm, dst, src) ==
    [stm EXCEPT
       !.uses = [j \in DOMAIN @ |-> IF @[j] = dst THEN src ELSE @[j]],
       !.args = [j \in DOMAIN @ |-> IF @[j][1] = dst THEN <<src, @[j][2]>> ELSE @[j]]]

replace_uses(stms, dst, src) ==
    [b \in DOMAIN stms |->
        [k \in DOMAIN stms[b] |-> ReplaceInStm(stms[b][k], dst, src)]]

\* the phis among the statements replace_uses changed
RECURSIVE ReplacedPhisFrom(_, _, _, _)
ReplacedPhisFrom(stms, dst, b, k) ==
    IF b > Len(stms) THEN <<>>
    ELSE IF k > Len(stms[b]) THEN ReplacedPhisFrom(stms, dst, b + 1, 1)
    ELSE (IF IsPhiObject(stms[b][k]) /\ StmUses(stms[b][k], dst)
          THEN <<<<b, k>>>> ELSE <<>>)
         \o ReplacedPhisFrom(stms, dst, b, k + 1)

\* one turn of the loop that puts a phi it keeps back on the worklist
UselessPhiStep_requeue(r, worklist) ==
    LET at  == Head(worklist)
        phi == r.stms[at[1]][at[2]]
        sym == get_sym_if_having_only_1(phi)
        out == [b \in DOMAIN r.stms |->
                  [k \in DOMAIN r.stms[b] |->
                      IF <<b, k>> = at THEN RemovedPhi(phi) ELSE r.stms[b][k]]]
    IN IF phi.args = <<>>
       THEN [r |-> [stms |-> out, failed |-> r.failed \/ ~IsPhi(phi)],
             worklist |-> Tail(worklist)]
       ELSE IF sym # NoSym
            THEN [r |-> [r EXCEPT !.stms = replace_uses(out, phi.var, sym)],
                  worklist |-> Tail(worklist) \o ReplacedPhisFrom(out, phi.var, 1, 1)]
            ELSE [r |-> r, worklist |-> Tail(worklist) \o <<at>>]

\* _remove_useless_phi: one turn of "while worklist".  r = [stms, failed];
\* failed records list.remove raising on a phi that is not in its block.
UselessPhiStep(r, worklist) ==
    LET at  == Head(worklist)
        phi == r.stms[at[1]][at[2]]
        sym == get_sym_if_having_only_1(phi)
        out == [b \in DOMAIN r.stms |->
                  [k \in DOMAIN r.stms[b] |->
                      IF <<b, k>> = at THEN RemovedPhi(phi) ELSE r.stms[b][k]]]
    IN IF phi.args = <<>>
       THEN [r |-> [stms |-> out, failed |-> r.failed \/ ~IsPhi(phi)],
             worklist |-> Tail(worklist)]
       ELSE IF sym # NoSym
            THEN [r |-> [r EXCEPT !.stms = replace_uses(out, phi.var, sym)],
                  worklist |-> Tail(worklist) \o ReplacedPhisFrom(out, phi.var, 1, 1)]
            ELSE [r |-> r, worklist |-> Tail(worklist)]

\* _remove_useless_phi: the worklist loop
RECURSIVE UselessPhiLoop(_, _)
UselessPhiLoop(r, worklist) ==
    IF worklist = <<>> THEN r
    ELSE LET s == UselessPhiStep(r, worklist)
         IN UselessPhiLoop(s.r, s.worklist)

NotRemoved(stm) == stm.op # "PHI_REMOVED"

\* _remove_useless_phi on the statements of a scope: the statements left
\* in the blocks, and whether it raised.
_remove_useless_phi(stms) ==
    LET n == Len(stms)
        asSeq == [b \in 1 .. n |-> stms[b]]
        r == UselessPhiLoop([stms |-> asSeq, failed |-> FALSE],
                            PhiPlacesFrom(asSeq, 1, 1))
    IN [stms |-> [b \in 1 .. n |-> SelectSeq(r.stms[b], NotRemoved)],
        failed |-> r.failed]

RemoveUselessPhi ==
    /\ pc = "remove_useless_phi"
    /\ LET r == _remove_useless_phi(ssa.stms)
       IN ssa' = [ssa EXCEPT !.stms = r.stms, !.failed = r.failed]
    /\ pc' = "cleanup_phi"
    /\ UNCHANGED <<stg, pipeVars>>

\* _cleanup_phi whose remove loop stops after the first self argument
RECURSIVE FirstSelfRemoved(_, _)
FirstSelfRemoved(args, var) ==
    IF args = <<>> THEN <<>>
    ELSE IF Head(args)[1] = var THEN Tail(args)
    ELSE <<Head(args)>> \o FirstSelfRemoved(Tail(args), var)

_cleanup_phi_first(stms) ==
    [b \in DOMAIN stms |->
        [k \in DOMAIN stms[b] |->
            LET phi == stms[b][k]
            IN IF IsPhi(phi)
               THEN [phi EXCEPT !.args = FirstSelfRemoved(phi.args, phi.var)]
               ELSE phi]]

\* _cleanup_phi: the self arguments of every phi are taken out
_cleanup_phi(stms) ==
    [b \in DOMAIN stms |->
        [k \in DOMAIN stms[b] |->
            LET phi == stms[b][k]
            IN IF IsPhi(phi) THEN [phi EXCEPT !.args = NonSelfArgs(phi)] ELSE phi]]

CleanupPhi ==
    /\ pc = "cleanup_phi"
    /\ ssa' = [ssa EXCEPT !.stms = _cleanup_phi(@)]
    /\ pc' = "ssa_done"
    /\ UNCHANGED <<stg, pipeVars>>

NextSSA ==
    InsertPhiSym \/ InsertPhiPop \/ InsertPhiDone \/ Rename
    \/ RemoveUselessPhi \/ CleanupPhi

SpecSSA == InitSSA /\ [][NextSSA]_vars

InitSSAExempt == InitSSAWith(ExemptStmLists, ExemptKinds)

SpecSSAExempt == InitSSAExempt /\ [][NextSSA]_vars

----------------------------------------------------------------------------
(* Properties of the SSA builder.                                          *)

\* the places <<block, index>> of the statements of the scope
StmPlaces == UNION {{<<b, k>> : k \in DOMAIN ssa.stms[b]} : b \in DOMAIN ssa.stms}

StmAt(pl) == ssa.stms[pl[1]][pl[2]]

\* the symbols a statement reads: its uses and its phi arguments
ReadsOf(stm) ==
    {stm.uses[j] : j \in DOMAIN stm.uses} \cup {stm.args[j][1] : j \in DOMAIN stm.args}

\* the places defining / reading symbol v
DefPlaces(v) == {pl \in StmPlaces : StmAt(pl).var = v}

UsePlaces(v) == {pl \in StmPlaces : v \in ReadsOf(StmAt(pl))}

\* the versions name#i, i >= 1, of ordinary symbols that occur in the scope
VersionsInScope ==
    {v \in UNION {{StmAt(pl).var} \cup ReadsOf(StmAt(pl)) : pl \in StmPlaces} :
        /\ v # NoSym /\ IsVersion(v) /\ v[2] >= 1
        /\ ~_is_always_single_assigned(ssa.kinds, v)}

\* the definition at place dp comes before place pl on every path to pl
DefDominates(dp, pl) ==
    \/ dp[1] = pl[1] /\ dp[2] < pl[2]
    \/ StrictlyDominates(ssa.dom, dp[1], pl[1])

\* the blocks reachable from block b (b included)
RECURSIVE ReachFrom(_, _)
ReachFrom(g, S) ==
    LET T == S \cup UNION {g[b] : b \in S}
    IN IF T = S THEN S ELSE ReachFrom(g, T)

\* a read of version v at place pl is well formed
UseWellFormed(pl, v) ==
    \E dp \in DefPlaces(v) :
        IF IsPhi(StmAt(pl))
        THEN pl[1] \in ReachFrom(ssa.g, {dp[1]})
        ELSE DefDominates(dp, pl)

SSADone == pc = "ssa_done"

\* block b assigns sym by a statement of the source program
Assigns(b, sym) ==
    \E k \in DOMAIN ssa.stms[b] :
        ssa.stms[b][k].op = "MOVE" /\ Ancestor(ssa.stms[b][k].var) = sym

\* out[b]: on every path from the entry to the end of block b, sym is assigned
RECURSIVE AssignedFrom(_, _, _)
AssignedFrom(sym, b, out) ==
    IF b > Len(ssa.g) THEN out
    ELSE AssignedFrom(sym, b + 1,
             [out EXCEPT ![b] =
                 \/ Assigns(b, sym)
                 \/ /\ Preds(ssa.g, b) # {}
                    /\ \A p \in Preds(ssa.g, b) : out[p]])

AssignedOut(sym) == AssignedFrom(sym, 1, [b \in DOMAIN ssa.g |-> FALSE])

\* the read of sym by the statement at place pl is preceded by an
\* assignment of sym on every path from the entry
DefinitelyAssigned(pl, sym) ==
    \/ \E k \in 1 .. (pl[2] - 1) :
          ssa.stms[pl[1]][k].op = "MOVE" /\ Ancestor(ssa.stms[pl[1]][k].var) = sym
    \/ /\ Preds(ssa.g, pl[1]) # {}
       /\ \A p \in Preds(ssa.g, pl[1]) : AssignedOut(sym)[p]

\* the phis left in the blocks of the scope
PhisInScope == {pl \in StmPlaces : IsPhi(StmAt(pl))}

\* C11: after SSAFormTransformer.process, every version name#i (i >= 1) of a
\* symbol that is not always single assigned has exactly one defining
\* statement in the scope.
C11_OneDefinitionPerVersion ==
    SSADone => \A v \in VersionsInScope : Cardinality(DefPlaces(v)) = 1

\* C11 witness: a transformed scope with a phi left and at least three
\* versions, two of them defined in blocks that do not dominate one another.
C11_Witness ==
    /\ SSADone
    /\ PhisInScope # {}
    /\ Cardinality(VersionsInScope) >= 3
    /\ \E v, w \in VersionsInScope :
          \E dv \in DefPlaces(v), dw \in DefPlaces(w) :
              /\ v # w /\ dv[1] # dw[1]
              /\ dv[1] \notin ssa.dom[dw[1]]
              /\ dw[1] \notin ssa.dom[dv[1]]

\* the non-phi statements reading a symbol
PlainUsePlaces == {pl \in StmPlaces : ~IsPhi(StmAt(pl)) /\ StmAt(pl).uses # <<>>}

OtherArgSyms(phi) == {phi.args[j][1] : j \in DOMAIN phi.args} \ {phi.var}

Renamed == pc = "remove_useless_phi"

\* the phis for symbol sym in block b
PhisFor(b, sym) ==
    {k \in DOMAIN ssa.stms[b] : IsPhi(ssa.stms[b][k]) /\ Ancestor(ssa.stms[b][k].var) = sym}

\* the version of sym live at the end of block b of the renamed scope: that
\* of the last definition in b, else the one live at the end of the
\* immediate dominator; 0 when no definition has been seen
RECURSIVE LiveOut(_, _)
LiveOut(b, sym) ==
    LET ds == {k \in DOMAIN ssa.stms[b] :
                  ssa.stms[b][k].var # NoSym /\ Ancestor(ssa.stms[b][k].var) = sym}
        last == CHOOSE k \in ds : \A j \in ds : j <= k
    IN IF ds # {} THEN ssa.stms[b][last].var[2]
       ELSE IF b = 1 THEN 0
       ELSE LiveOut(CHOOSE c \in DOMAIN ssa.g : b \in ssa.children[c], sym)

\* h branches to p and q, which both assign sym and join at m
IfElseJoin(h, p, q, m, sym) ==
    /\ p # q /\ ssa.g[h] = {p, q}
    /\ ssa.g[p] = {m} /\ ssa.g[q] = {m}
    /\ Preds(ssa.g, p) = {h} /\ Preds(ssa.g, q) = {h}
    /\ Preds(ssa.g, m) = {p, q}
    /\ Assigns(p, sym) /\ Assigns(q, sym)

\* the arguments of phi that came over the edge from block p
ArgsFrom(phi, p) == {j \in DOMAIN phi.args : phi.args[j][2] = p}

\* C14: after phi placement and renaming, the merge block of an if/else
\* whose branches both assign x holds exactly one phi for x, with exactly
\* two arguments, one per predecessor, each the version live at the end of
\* that predecessor; in general a phi holds exactly one argument for each
\* predecessor at whose end a version of the symbol is live, carrying that
\* version, and none for a predecessor at whose end no definition of the
\* symbol has been seen.
C14_PhiArguments ==
    Renamed =>
        /\ \A h, p, q, m \in DOMAIN ssa.g :
              IfElseJoin(h, p, q, m, Symbol("x")) =>
                  /\ Cardinality(PhisFor(m, Symbol("x"))) = 1
                  /\ \A k \in PhisFor(m, Symbol("x")) :
                        /\ Len(ssa.stms[m][k].args) = 2
                        /\ \A r \in {p, q} :
                              \E j \in DOMAIN ssa.stms[m][k].args :
                                  ssa.stms[m][k].args[j] =
                                      <<inherit_sym(Symbol("x"), LiveOut(r, Symbol("x"))), r>>
        /\ \A pl \in PhisInScope :
              LET phi == StmAt(pl)
                  sym == Ancestor(phi.var)
              IN /\ \A j \in DOMAIN phi.args : phi.args[j][2] \in Preds(ssa.g, pl[1])
                 /\ \A r \in Preds(ssa.g, pl[1]) :
                       IF LiveOut(r, sym) > 0
                       THEN /\ Cardinality(ArgsFrom(phi, r)) = 1
                            /\ \A j \in ArgsFrom(phi, r) :
                                  phi.args[j][1] = inherit_sym(sym, LiveOut(r, sym))
                       ELSE ArgsFrom(phi, r) = {}

\* C14 witness: a renamed scope with an if/else whose branches both assign
\* x, the phi of its merge block holding the two versions they define.
C14_Witness ==
    /\ Renamed
    /\ \E h, p, q, m \in DOMAIN ssa.g :
          /\ IfElseJoin(h, p, q, m, Symbol("x"))
          /\ \E k \in PhisFor(m, Symbol("x")) :
                /\ Len(ssa.stms[m][k].args) = 2
                /\ ssa.stms[m][k].args[1][1] # ssa.stms[m][k].args[2][1]

\* C14 as stated: after phi placement and renaming every phi holds one
\* argument for each predecessor edge of its block.
C14_OneArgumentPerEdge ==
    Renamed =>
        \A pl \in PhisInScope :
            \A r \in Preds(ssa.g, pl[1]) : Cardinality(ArgsFrom(StmAt(pl), r)) = 1

PhisPlaced == pc = "rename"

\* the blocks whose statements of the source program assign sym
DefBlocks(sym) == {b \in DOMAIN ssa.g : Assigns(b, sym)}

\* the iterated dominance frontier of the set S of blocks: the least set X
\* with X = DF(S \cup X)
RECURSIVE IteratedFrontier(_, _)
IteratedFrontier(S, X) ==
    LET Y == UNION {ssa.df[b] : b \in S \cup X}
    IN IF Y = X THEN X ELSE IteratedFrontier(S, Y)

\* what is left to do in _insert_phi: the symbols not yet taken, and for
\* the symbol in hand the phis not yet placed and the blocks on the worklist
InsertPhiVariant ==
    Cardinality(ssa.todo) * (3 * Len(ssa.g) + 2)
    + (IF ssa.cur = NoSym THEN 0
       ELSE 1 + 2 * Cardinality({b \in DOMAIN ssa.g : ssa.cur \notin ssa.phis[b]})
              + Cardinality(ssa.sym_defs_blk[ssa.cur]))

Pruned == pc = "cleanup_phi"

\* C16: _remove_useless_phi run again on the scope it produced removes no
\* phi, replaces no use and does not raise: its output is its input.
C16_PruningIdempotent ==
    Pruned => _remove_useless_phi(ssa.stms) = [stms |-> ssa.stms, failed |-> FALSE]

\* C16 witness: the first run has taken out the phi placed in one block,
\* replacing a use of its destination, and has left a phi in another.
C16_Witness ==
    /\ Pruned
    /\ PhisInScope # {}
    /\ \E b \in DOMAIN ssa.stms :
          /\ ssa.phis[b] # {}
          /\ \A k \in DOMAIN ssa.stms[b] :
                /\ ~IsPhi(ssa.stms[b][k])
                /\ ssa.stms[b][k].uses # <<>>

\* the symbols a statement names: its destination, its uses, its arguments
SymsOfStm(stm) == (IF stm.var = NoSym THEN {} ELSE {stm.var}) \cup ReadsOf(stm)

\* C17: at every point of SSAFormTransformer.process no block holds a phi
\* for a symbol flagged condition, temporary, parameter or function, and
\* every definition and use of such a symbol still names the symbol itself,
\* not a version of it.
C17_ExemptUntouched ==
    \A pl \in StmPlaces :
        \A sym \in SymsOfStm(StmAt(pl)) :
            ssa.kinds[sym[1]] # "plain" => ~IsVersion(sym) /\ ~IsPhi(StmAt(pl))

\* C17 witness: process is through on a scope that defines and uses an
\* exempt symbol; the ordinary symbol next to it was renamed and has a phi.
C17_Witness ==
    /\ SSADone
    /\ PhisInScope # {}
    /\ \E pl, ql \in StmPlaces :
          /\ StmAt(pl).var = Symbol("t")
          /\ \E j \in DOMAIN StmAt(pl).uses : IsVersion(StmAt(pl).uses[j])
          /\ \E j \in DOMAIN StmAt(ql).uses : StmAt(ql).uses[j] = Symbol("t")
          /\ IsVersion(StmAt(ql).var)

----------------------------------------------------------------------------
(* Part 3: the STG builder (compiler/stg.py).                              *)
(*   SpecSTG    STGBuilder.process on one scope: StateBuilder.build block  *)
(*              by block, the other region of the scope, then one          *)
(*              resolve_transition per state                               *)
(* A transition target is None, a Block or a State (named by its name).    *)

\* largest number of blocks of the main region of a scope
MaxDfgBlocks == 2

None == <<"None">>

Block(b) == <<"Block", b>>

StateRef(name) == <<"State", name>>

AHDL_META_WAIT(transition) == <<"META_WAIT", transition>>

AHDL_INLINE(text) == <<"INLINE", text>>

AHDL_SEQ(factor) == <<"SEQ", factor>>

is_a(code, ops) == code[1] \in ops

State(name, step, codes) == [name |-> name, step |-> step, codes |-> codes, stages |-> FALSE]

\* a PipelineState, with the codes of its end stage
PipelineState_of(name, codes) == [name |-> name, step |-> 0, codes |-> codes, stages |-> TRUE]

\* The items the translator emits for one step of a block, in the order of
\* the statements: a register move, a wait, a wait followed by a move.
StepItems ==
    {<<AHDL_MOVE("x", "y")>>,
     <<AHDL_META_WAIT(<<>>)>>,
     <<AHDL_META_WAIT(<<>>), AHDL_MOVE("x", "y")>>}

\* The schedules of a block without its jump: no item, one step, two steps.
Schedules ==
    {<<>>} \cup {<<l>> : l \in StepItems}
           \cup {<<<<AHDL_MOVE("x", "y")>>, <<AHDL_META_WAIT(<<>>)>>>>}

\* The last statement of a block: RET, JUMP to the first or the last block,
\* or CJUMP between the two, scheduled in the last step of the block or in a
\* step of its own (own), on a condition that is the constant 1 (const) or
\* is not.
Terminators(ids) ==
    {[op |-> "RET", targets |-> <<>>, own |-> FALSE, const |-> FALSE]}
    \cup {[op |-> "JUMP", targets |-> <<t>>, own |-> FALSE, const |-> FALSE] :
           t \in {1, CHOOSE m \in ids : \A u \in ids : u <= m}}
    \cup {[op |-> "CJUMP", targets |-> <<1, CHOOSE m \in ids : \A t \in ids : t <= m>>,
           own |-> oc[1], const |-> oc[2]] :
           oc \in {<<FALSE, FALSE>>, <<TRUE, FALSE>>, <<FALSE, TRUE>>}}

\* visit_CJUMP: the transition a CJUMP is translated to
visit_CJUMP(stm) ==
    IF stm.const THEN AHDL_TRANSITION(Block(stm.targets[1]))
    ELSE AHDL_TRANSITION_IF(<<"cond", AHDL_CONST(1)>>,
                            <<<<AHDL_TRANSITION(Block(stm.targets[1]))>>,
                              <<AHDL_TRANSITION(Block(stm.targets[2]))>>>>)

\* ScheduledItemQueue of a block after _build_scheduled_items: the item
\* lists of its steps in increasing order (visit_JUMP emits nothing)
ScheduledItems(blk) ==
    IF blk.stm.op # "CJUMP" THEN blk.items
    ELSE IF blk.stm.own \/ blk.items = <<>>
         THEN Append(blk.items, <<visit_CJUMP(blk.stm)>>)
         ELSE [blk.items EXCEPT ![Len(blk.items)] = Append(@, visit_CJUMP(blk.stm))]

Terminal == {"TRANSITION", "TRANSITION_IF", "META_WAIT"}

Last(seq) == seq[Len(seq)]

StateOfStep_no_fall_through(b, k, items) == State(<<b, "S", k - 1>>, k, items)

\* _build_states_for_block, the loop over the steps: one state per step,
\* with a fall-through transition after a last item that is no terminal
StateOfStep(b, k, items) ==
    State(<<b, "S", k - 1>>, k,
          IF is_a(Last(items), Terminal) THEN items
          ELSE Append(items, AHDL_TRANSITION(None)))

\* _build_states_for_block, "for step, items in
\* scheduled_items.pop_by_step()": the states of steps k .. Len(items)
RECURSIVE StatesOfSteps(_, _, _)
StatesOfSteps(b, items, k) ==
    IF k > Len(items) THEN <<>>
    ELSE <<StateOfStep(b, k, items[k])>> \o StatesOfSteps(b, items, k + 1)

EmptyBlockStates_two(b) ==
    <<State(<<b, "S", 0>>, 1, <<AHDL_TRANSITION(None)>>),
      State(<<b, "S", 1>>, 1, <<AHDL_TRANSITION(None)>>)>>

\* _build_states_for_block, "if not states": the state of a block without
\* scheduled items
EmptyBlockStates(b) == <<State(<<b, "S", 0>>, 1, <<AHDL_TRANSITION(None)>>)>>

InsertsInitState_never(states, is_last) == FALSE

\* _build_states_for_block, "if not (len(states) <= 1 and is_last)": the
\* first block of a callable gets an INIT state before its states
InsertsInitState(states, is_last) == ~(Len(states) <= 1 /\ is_last)

\* _build_states_for_block: the states of block number b and whether an
\* assertion failed.  kind is the kind of the scope.
_build_states_for_block(b, blk, kind, is_main, is_first, is_last) ==
    LET queue0 == ScheduledItems(blk)
        s0 == IF queue0 = <<>>
              THEN EmptyBlockStates(b)
              ELSE StatesOfSteps(b, queue0, 1)
        isJump == blk.stm.op = "JUMP"
        trans == Last(Last(s0).codes)
        s1 == IF isJump /\ is_a(trans, {"TRANSITION"})
              THEN [s0 EXCEPT ![Len(s0)].codes[Len(Last(s0).codes)] =
                                   AHDL_TRANSITION(Block(blk.stm.targets[1]))]
              ELSE s0
        f1 == isJump /\ ~is_a(trans, {"TRANSITION", "META_WAIT"})
        \* worker / testbench
        w1 == IF is_first THEN [s1 EXCEPT ![1].name = <<b, "INIT">>] ELSE s1
        fin == State(<<b, "FINISH">>, Last(w1).step + 1,
                     IF kind = "worker" THEN <<AHDL_TRANSITION(None)>>
                     ELSE <<AHDL_INLINE("display"), AHDL_INLINE("finish")>>)
        w2 == IF is_last THEN Append(w1, fin) ELSE w1
        \* ordinary callable
        f2 == is_first /\ ~is_a(Last(s1[1].codes), {"TRANSITION", "TRANSITION_IF"})
        c1 == IF is_first /\ InsertsInitState(s1, is_last)
              THEN <<State(<<b, "INIT">>, 0,
                           <<AHDL_SEQ("CALLEE_PROLOG"), AHDL_TRANSITION(None)>>)>> \o s1
              ELSE s1
        lc == Last(c1).codes
        f3 == is_last /\ ~is_a(Last(lc), {"TRANSITION"})
        c2 == IF is_last
              THEN [c1 EXCEPT ![Len(c1)].name = <<b, "FINISH">>,
                              ![Len(c1)].codes =
                                  SubSeq(lc, 1, Len(lc) - 1)
                                  \o <<AHDL_SEQ("CALLEE_EPILOG"), Last(lc)>>]
              ELSE c1
        \* self.stg.init_state, self.stg.finish_state as this call sets them
        \* (<<>> if it does not), by the name the state has at the return
        ends(first, last) ==
            [init_state |-> IF is_first THEN <<first.name>> ELSE <<>>,
             finish_state |-> IF is_last THEN <<last.name>> ELSE <<>>]
    IN IF ~is_main
       THEN [states |-> s1, failed |-> f1, ends |-> ends(s1[1], s1[1])]
       ELSE IF kind \in {"worker", "testbench"}
            THEN [states |-> w2, failed |-> f1, ends |-> ends(w2[1], Last(w2))]
            ELSE [states |-> c2, failed |-> f1 \/ f2 \/ f3,
                  ends |-> ends(c2[1], Last(c2))]

ResolveTarget_none_only(trans, next_state, blk2states) ==
    IF trans[2] = None THEN AHDL_TRANSITION(StateRef(next_state)) ELSE trans

\* the transition with its Block target replaced by the first state built
\* for the block, or None by next_state
ResolveTarget(trans, next_state, blk2states) ==
    IF trans[2] = None THEN AHDL_TRANSITION(StateRef(next_state))
    ELSE AHDL_TRANSITION(StateRef(blk2states[trans[2][2]][1]))

\* AHDL_TRANSITION_IF: every codes list holds one transition to a Block
ResolveBranches(code, blk2states) ==
    AHDL_TRANSITION_IF(code[2],
        [i \in DOMAIN code[3] |->
            <<AHDL_TRANSITION(StateRef(blk2states[code[3][i][1][2][2]][1]))>>])

\* State.resolve_transition: the codes of the state afterwards
resolve_transition(state, next_state, blk2states) ==
    LET code == Last(state.codes)
        transition ==
            IF is_a(code, {"TRANSITION"})
            THEN <<ResolveTarget(code, next_state, blk2states)>>
            ELSE IF is_a(code, {"TRANSITION_IF"})
                 THEN <<ResolveBranches(code, blk2states)>>
                 ELSE <<>>
        codes1 == IF transition = <<>> THEN state.codes
                  ELSE [state.codes EXCEPT ![Len(state.codes)] = transition[1]]
        move_transition ==
            transition # <<>> /\ \E k \in DOMAIN codes1 : is_a(codes1[k], {"META_WAIT"})
        codes2 == [k \in DOMAIN codes1 |->
                      IF is_a(codes1[k], {"META_WAIT"})
                      THEN AHDL_META_WAIT(IF transition # <<>> THEN transition
                                          ELSE <<AHDL_TRANSITION(StateRef(next_state))>>)
                      ELSE codes1[k]]
    IN IF move_transition THEN SubSeq(codes2, 1, Len(codes2) - 1) ELSE codes2

\* PipelineState.resolve_transition on the codes of the end stage
pipeline_resolve_transition(state, next_state, blk2states) ==
    LET code == Last(state.codes)
    IN IF is_a(code, {"TRANSITION_IF"})
       THEN [state.codes EXCEPT ![Len(state.codes)] = ResolveBranches(code, blk2states)]
       ELSE state.codes

\* The scopes STGBuilder.process is given: the kind of the scope, the
\* blocks of its main region and its other region, if any: a region built by
\* StateBuilder ("state", "empty"), a pipelined loop ("loop"), the pipeline
\* of a worker without loop_info ("worker_loop") or none.
STGBlocks(ids) == [items : Schedules, stm : Terminators(ids)]

NewSTGScope(kind, blocks, child) ==
    [kind |-> kind, blocks |-> blocks, child |-> child,
     states |-> <<<<>>, <<>>>>,
     init_state |-> <<<<>>, <<>>>>, finish_state |-> <<<<>>, <<>>>>,
     blk2states |-> [b \in {} |-> <<>>],
     i |-> 0, child_built |-> FALSE, r |-> <<1, 1>>, calls |-> <<>>]

InitSTG ==
    /\ pc = "stg_build"
    /\ \E kind \in {"callable", "worker", "testbench"}, n \in 1 .. MaxDfgBlocks :
       \E child \in {"none", "state", "empty", "loop"}
                    \cup (IF kind = "worker" THEN {"worker_loop"} ELSE {}) :
          LET ids == 1 .. (IF child = "none" THEN n ELSE n + 1)
          IN \E blocks \in [1 .. n -> STGBlocks(ids)] :
                stg = NewSTGScope(kind, blocks, child)
    /\ ssa = <<>>
    /\ IdlePipeline

stgFrame == <<ssa, pipeVars>>

\* build: "self.stg.states.extend(states)" and
\* "self.blk2states[self.scope][blk] = states" for block b of region s
NamesOf(states) == [j \in DOMAIN states |-> states[j].name]

RecordStates(sc, s, b, states) ==
    [sc EXCEPT !.states[s] = @ \o states,
               !.blk2states = [c \in DOMAIN sc.blk2states \cup {b} |->
                                  IF c = b THEN NamesOf(states) ELSE sc.blk2states[c]]]

\* self.stg.init_state and self.stg.finish_state of region s, where the
\* call of _build_states_for_block set them
RecordEnds(sc, s, ends) ==
    [sc EXCEPT !.init_state[s] = IF ends.init_state # <<>> THEN ends.init_state ELSE @,
               !.finish_state[s] = IF ends.finish_state # <<>> THEN ends.finish_state ELSE @]

\* StateBuilder.build, one turn of "for i, blk in enumerate(dfg.blocks)"
\* of the main region
BuildBlock ==
    /\ pc = "stg_build"
    /\ stg.i < Len(stg.blocks)
    /\ LET b == stg.i + 1
           r == _build_states_for_block(b, stg.blocks[b], stg.kind, TRUE,
                                        b = 1, b = Len(stg.blocks))
       IN IF r.failed
          THEN pc' = "stg_failed" /\ stg' = stg
          ELSE /\ pc' = pc
               /\ stg' = [RecordEnds(RecordStates(stg, 1, b, r.states), 1, r.ends)
                             EXCEPT !.i = b]
    /\ UNCHANGED stgFrame

\* the block of the other region: a loop head that waits and branches
\* between itself and the first block, or a block without scheduled items
\* that jumps to the first block
ChildBlock(child, b) ==
    IF child = "empty"
    THEN [items |-> <<>>, stm |-> [op |-> "JUMP", targets |-> <<1>>, own |-> FALSE, const |-> FALSE]]
    ELSE [items |-> <<<<AHDL_META_WAIT(<<>>), AHDL_MOVE("x", "y")>>>>,
          stm |-> [op |-> "CJUMP", targets |-> <<1, b>>, own |-> FALSE, const |-> FALSE]]

\* _process_dfg for the other region of the scope: StateBuilder.build with
\* is_main False, or LoopPipelineStageBuilder.build
ProcessChildDfg ==
    /\ pc = "stg_build"
    /\ stg.i = Len(stg.blocks) /\ stg.child # "none" /\ ~stg.child_built
    /\ LET b == Len(stg.blocks) + 1
           r == _build_states_for_block(b, ChildBlock(stg.child, b), stg.kind,
                                        FALSE, TRUE, TRUE)
           pstate_name == <<b, "P">>
           \* LoopPipelineStageBuilder.build: the exit condition of the
           \* pipeline; it leaves init_state and finish_state alone
           loop == PipelineState_of(pstate_name,
                       <<AHDL_MOVE("valid", "valid"),
                         AHDL_TRANSITION_IF(<<"pipe_end_cond">>,
                                            <<<<AHDL_TRANSITION(Block(1))>>>>)>>)
           \* WorkerPipelineStageBuilder.build: AHDL_TRANSITION(pstate),
           \* init_state = finish_state = pstate
           worker == PipelineState_of(pstate_name,
                         <<AHDL_MOVE("valid", "valid"),
                           AHDL_TRANSITION(StateRef(pstate_name))>>)
           states == IF stg.child = "loop" THEN <<loop>>
                     ELSE IF stg.child = "worker_loop" THEN <<worker>>
                     ELSE r.states
           ends == IF stg.child = "loop" THEN [init_state |-> <<>>, finish_state |-> <<>>]
                   ELSE IF stg.child = "worker_loop"
                        THEN [init_state |-> <<pstate_name>>, finish_state |-> <<pstate_name>>]
                        ELSE r.ends
       IN stg' = [RecordEnds(RecordStates(stg, 2, b, states), 2, ends)
                     EXCEPT !.child_built = TRUE]
    /\ UNCHANGED <<pc, stgFrame>>

\* process: every region is built, the resolve pass starts
StartResolve ==
    /\ pc = "stg_build"
    /\ stg.i = Len(stg.blocks) /\ (stg.child = "none" \/ stg.child_built)
    /\ pc' = "stg_resolve"
    /\ UNCHANGED <<stg, stgFrame>>

NextStateOf_self(s, k) ==
    LET states == stg.states[s]
    IN IF k < Len(states) THEN states[k + 1].name ELSE Last(states).name

\* the state resolve_transition gets as next_state for state k of region s
NextStateOf(s, k) ==
    LET states == stg.states[s]
    IN IF k < Len(states) THEN states[k + 1].name
       ELSE IF s = 1 /\ stg.kind \in {"worker", "testbench"} THEN Last(states).name
       ELSE states[1].name

\* a resolve_transition that returns the state it was called on
resolve_transition_returns_self(state, next_state) == state

\* "return next_state" of resolve_transition: what the lambda of the reduce
\* hands on (states are named by their place in stg.states)
resolve_transition_returns(state, next_state) == next_state

\* functools.reduce(lambda s1, s2: s1.resolve_transition(s2, ...), states):
\* the state call j of the reduce is made on; s2 of call j is state j + 1
RECURSIVE ReduceReceiver(_)
ReduceReceiver(j) ==
    IF j = 1 THEN 1 ELSE resolve_transition_returns(ReduceReceiver(j - 1), j)

\* the state call j for region s is made on: the calls of the reduce, then
\* states[-1].resolve_transition(...)
Receiver(s, j) ==
    IF j < Len(stg.states[s]) THEN ReduceReceiver(j) ELSE Len(stg.states[s])

\* "assert isinstance(transition.target, Block)" of resolve_transition: a
\* target that is not None is a Block
TargetsAreBlocks(state) ==
    LET code == Last(state.codes)
    IN IF is_a(code, {"TRANSITION_IF"})
       THEN \A i \in DOMAIN code[3] : code[3][i][1][2][1] = "Block"
       ELSE IF is_a(code, {"TRANSITION"}) /\ ~state.stages
            THEN code[2] = None \/ code[2][1] = "Block"
            ELSE TRUE

\* process: one call of resolve_transition, in the order of the reduce
\* over the states of a region followed by the call for its last state;
\* stg.r is the region and the number of the call, stg.calls the calls made
ResolveState ==
    /\ pc = "stg_resolve"
    /\ LET s == stg.r[1]
           j == stg.r[2]
           k == Receiver(s, j)
           state == stg.states[s][k]
           call == <<s, k, NextStateOf(s, j)>>
           codes == IF state.stages
                    THEN pipeline_resolve_transition(state, NextStateOf(s, j), stg.blk2states)
                    ELSE resolve_transition(state, NextStateOf(s, j), stg.blk2states)
           more == j < Len(stg.states[s])
           child == s = 1 /\ stg.states[2] # <<>>
       IN IF TargetsAreBlocks(state)
          THEN /\ stg' = [stg EXCEPT !.states[s][k].codes = codes,
                                     !.calls = Append(@, call),
                                     !.r = IF more THEN <<s, j + 1>>
                                           ELSE IF child THEN <<2, 1>> ELSE <<0, 0>>]
               /\ pc' = IF more \/ child THEN pc ELSE "stg_done"
          ELSE /\ stg' = [stg EXCEPT !.calls = Append(@, call)]
               /\ pc' = "stg_failed"
    /\ UNCHANGED stgFrame

NextSTG == BuildBlock \/ ProcessChildDfg \/ StartResolve \/ ResolveState

SpecSTG == InitSTG /\ [][NextSTG]_vars

----------------------------------------------------------------------------
(* Properties of the STG builder.                                          *)

STGDone == pc = "stg_done"

\* the states of the STGs of the scope
StatesOfScope ==
    {stg.states[s][k] : s \in {1}, k \in DOMAIN stg.states[1]}
    \cup {stg.states[2][k] : k \in DOMAIN stg.states[2]}

\* the states StateBuilder built (not the PipelineState of a pipelined loop)
PlainStates == {st \in StatesOfScope : ~st.stages}

EndsInTerminal(st) == st.codes # <<>> /\ is_a(Last(st.codes), Terminal)

\* the transitions of a code: itself, the branches of a conditional
\* transition, the transition a wait construct carries
TransitionsOf(code) ==
    IF is_a(code, {"TRANSITION"}) THEN {code}
    ELSE IF is_a(code, {"TRANSITION_IF"})
         THEN {code[3][i][1] : i \in DOMAIN code[3]}
         ELSE IF is_a(code, {"META_WAIT"})
              THEN UNION {IF is_a(code[2][j], {"TRANSITION"}) THEN {code[2][j]}
                          ELSE {code[2][j][3][i][1] : i \in DOMAIN code[2][j][3]} :
                          j \in DOMAIN code[2]}
              ELSE {}

TransitionsOfState(st) == UNION {TransitionsOf(st.codes[k]) : k \in DOMAIN st.codes}

Waits(st) == {k \in DOMAIN st.codes : is_a(st.codes[k], {"META_WAIT"})}

\* the FINISH state of a testbench: it ends the simulation
IsTestbenchFinish(st) ==
    /\ stg.kind = "testbench"
    /\ st.name = <<Len(stg.blocks), "FINISH">>
    /\ st.codes = <<AHDL_INLINE("display"), AHDL_INLINE("finish")>>

\* a state in which other codes follow a wait construct: every wait
\* construct carries the transition of the state, and the list ends in the
\* code that stood before the transition
TransitionCarried(st) ==
    /\ Waits(st) # {}
    /\ \A k \in Waits(st) :
          /\ Len(st.codes[k][2]) = 1
          /\ is_a(st.codes[k][2][1], {"TRANSITION", "TRANSITION_IF"})
    /\ \A k \in DOMAIN st.codes : ~is_a(st.codes[k], {"TRANSITION", "TRANSITION_IF"})
    /\ \E k \in Waits(st) : k < Len(st.codes)

IsStateOfScope(target) ==
    /\ target[1] = "State"
    /\ \E u \in StatesOfScope : u.name = target[2]

\* C19: after the resolve pass of STGBuilder.process the target of every
\* transition in every state of every STG of the scope (the transitions in
\* the code lists, the branches of conditional transitions, the transitions
\* carried by wait constructs, those of a PipelineState) is a State of the
\* STGs of the scope, never a Block or None; every wait construct carries
\* a transition.
C19_TargetsResolved ==
    STGDone =>
        \A st \in StatesOfScope :
            /\ \A t \in TransitionsOfState(st) : IsStateOfScope(t[2])
            /\ \A k \in Waits(st) : st.codes[k][2] # <<>>

\* C19, its case: a resolved scope with a pipelined loop, a conditional
\* transition between blocks, a wait construct that carries a transition
\* and a jump to a block that was given an INIT state
C19_Witness ==
    /\ STGDone
    /\ stg.child = "loop"
    /\ \E st \in PlainStates : is_a(Last(st.codes), {"TRANSITION_IF"})
    /\ \E st \in PlainStates : \E k \in Waits(st) :
          k < Len(st.codes) /\ st.codes[k][2] # <<>>
    /\ \E st \in PlainStates :
          /\ st.name[1] = 2
          /\ Last(st.codes) = AHDL_TRANSITION(StateRef(<<1, "INIT">>))

\* the blocks StateBuilder.build has recorded states for, before the
\* resolve pass rewrites them
Built == pc \in {"stg_build", "stg_failed"} \/ (pc = "stg_resolve" /\ stg.r = <<1, 1>>)

BlockOf(b) ==
    IF b <= Len(stg.blocks) THEN stg.blocks[b] ELSE ChildBlock(stg.child, b)

\* the blocks with no scheduled items among those StateBuilder built
EmptyBlocks ==
    {b \in DOMAIN stg.blk2states :
        /\ ~(stg.child \in {"loop", "worker_loop"} /\ b > Len(stg.blocks))
        /\ ScheduledItems(BlockOf(b)) = <<>>}

\* the states recorded for block b, in the order of the list
RecordedStates(b) ==
    [j \in DOMAIN stg.blk2states[b] |->
        CHOOSE st \in StatesOfScope : st.name = stg.blk2states[b][j]]

NotSeq(code) == ~is_a(code, {"SEQ"})

\* the transition the state of an empty block holds: to the target of the
\* JUMP the block ends in, else the fall-through
OwnTransition(b) ==
    IF BlockOf(b).stm.op = "JUMP" THEN AHDL_TRANSITION(Block(BlockOf(b).stm.targets[1]))
    ELSE AHDL_TRANSITION(None)

\* C20 (as stated): a block with no scheduled items yields exactly one
\* state whose code list is a single fall-through transition, and build
\* records no empty state list.
C20_EmptyBlockOneFallThrough ==
    Built =>
        /\ \A b \in DOMAIN stg.blk2states : stg.blk2states[b] # <<>>
        /\ \A b \in EmptyBlocks :
              /\ Len(stg.blk2states[b]) = 1
              /\ RecordedStates(b)[1].codes = <<AHDL_TRANSITION(None)>>

\* C20 (amended): a block with no scheduled items yields exactly one state
\* of its own (step 1), whose code list is a single transition: the
\* fall-through, or the transition to the target of the JUMP the block ends
\* in; the handling of the first and last block of the main region may
\* record an INIT or FINISH state next to it and put the epilog before the
\* transition.  build records no empty state list.
C20_EmptyBlockOneTransition ==
    Built =>
        /\ \A b \in DOMAIN stg.blk2states : stg.blk2states[b] # <<>>
        /\ \A b \in EmptyBlocks :
              LET sts == RecordedStates(b)
                  own == {j \in DOMAIN sts : sts[j].step = 1}
                  main == b <= Len(stg.blocks)
                  callable == main /\ stg.kind = "callable"
                  first == main /\ b = 1
                  last == main /\ b = Len(stg.blocks)
              IN /\ Cardinality(own) = 1
                 /\ \A j \in own :
                       /\ SelectSeq(sts[j].codes, NotSeq) = <<OwnTransition(b)>>
                       /\ Len(sts[j].codes) = IF callable /\ last THEN 2 ELSE 1
                 /\ \A j \in DOMAIN sts \ own :
                       \/ callable /\ first /\ ~last /\ j = 1 /\ sts[j].name = <<b, "INIT">>
                       \/ ~callable /\ last /\ j = 2 /\ sts[j].name = <<b, "FINISH">>
                 /\ Len(sts) <= 2

\* C20, its case: the states of a scope are built; one block without
\* scheduled items got one state with the fall-through alone, another one
\* state with the transition to its JUMP target, a third a second state
C20_Witness ==
    /\ pc = "stg_resolve" /\ stg.r = <<1, 1>>
    /\ \E b \in EmptyBlocks :
          /\ Len(stg.blk2states[b]) = 1
          /\ RecordedStates(b)[1].codes = <<AHDL_TRANSITION(None)>>
    /\ \E b \in EmptyBlocks :
          /\ Len(stg.blk2states[b]) = 1
          /\ RecordedStates(b)[1].codes = <<AHDL_TRANSITION(Block(1))>>
    /\ \E b \in EmptyBlocks : Len(stg.blk2states[b]) = 2

----------------------------------------------------------------------------
(* Part 4: scheduled items (compiler/stg.py, STGItemBuilder).              *)
(*   SpecEmit   the translator emits the items of the nodes of one block   *)
(*              into the ScheduledItemQueue, then the states are built     *)
(* stg holds the nodes translated, the pushes made and the states built.   *)

\* largest number of nodes translated for the block
MaxNodes == 2
\* largest latency of a node
MaxLatency == 3

\* sys.maxsize, the key push files a scheduled time of -1 under: it lies
\* above every cycle of a schedule (the model's integers are 32 bits wide)
maxsize == 2147483646

\* emit_memload_sequence, emit_memstore_sequence: "step_n = 3", "step_n = 2"
memload_step_n == 3

memstore_step_n == 2

AHDL_SEQ_step(factor, step, step_n) == <<"SEQ", factor, step, step_n>>

push_prepend(q, sched_time, item) ==
    LET key == IF sched_time = 0 - 1 THEN maxsize ELSE sched_time
    IN [c \in DOMAIN q \cup {key} |->
           IF c = key THEN (IF c \in DOMAIN q THEN <<item>> \o q[c] ELSE <<item>>)
           ELSE q[c]]

\* ScheduledItemQueue.push (the tag is left out)
push(q, sched_time, item) ==
    LET key == IF sched_time = 0 - 1 THEN maxsize ELSE sched_time
    IN [c \in DOMAIN q \cup {key} |->
           IF c = key THEN (IF c \in DOMAIN q THEN Append(q[c], item) ELSE <<item>>)
           ELSE q[c]]

\* ScheduledItemQueue.pop: the (sched_time, items) pairs it yields, in order
RECURSIVE PairsOf(_, _)
PairsOf(q, steps) ==
    IF steps = <<>> THEN <<>>
    ELSE <<<<Head(steps), q[Head(steps)]>>>> \o PairsOf(q, Tail(steps))

pop(q) == PairsOf(q, SortedSteps(q))

\* the number of sub-steps a multi-cycle construct is expanded into
step_n_wrong(node) == node.latency

step_n(node) ==
    IF node.kind = "memload" THEN memload_step_n
    ELSE IF node.kind = "memstore" THEN memstore_step_n
    ELSE IF node.kind = "port_rd" /\ ~node.target THEN node.latency - 1
    ELSE node.latency

\* emit_call_sequence, emit_memload_sequence, emit_memstore_sequence,
\* _make_port_write_seq, _make_port_read_seq: the pushes of sub-steps
\* i .. step_n - 1, as (sched_time, item) pairs
RECURSIVE SeqPushes(_, _)
SeqPushes(node, i) ==
    IF i >= step_n(node) THEN <<>>
    ELSE <<<<node.t + i, AHDL_SEQ_step(<<node.kind, node.id>>, i, step_n(node))>>>>
         \o SeqPushes(node, i + 1)

\* the queue after the pushes ps
RECURSIVE PushAll(_, _)
PushAll(q, ps) ==
    IF ps = <<>> THEN q
    ELSE PushAll(push(q, ps[1][1], ps[1][2]), Tail(ps))

MultiCycle == {"call", "memload", "memstore", "port_rd", "port_wr"}

\* the nodes the scheduler can hand over: a multi-cycle construct at t with
\* a latency; a port read has a destination or none
Nodes(id) ==
    {[id |-> id, kind |-> k, t |-> t, latency |-> l, target |-> tg] :
        k \in MultiCycle, t \in 0 .. MaxStep, l \in 1 .. MaxLatency, tg \in {TRUE}}
    \cup {[id |-> id, kind |-> "port_rd", t |-> t, latency |-> l, target |-> FALSE] :
        t \in 0 .. MaxStep, l \in 1 .. MaxLatency}

emitFrame == <<pstate, sig, hdlsigs, regs, en, data, obs, ssa>>

InitEmit ==
    /\ pc = "emit"
    /\ IdlePipeline
    /\ ssa = <<>>
    /\ stg = [nodes |-> <<>>, pushed |-> <<>>, states |-> <<>>]

\* _translate_nodes on a node that is a multi-cycle construct
EmitNode ==
    /\ pc = "emit"
    /\ Len(stg.nodes) < MaxNodes
    /\ \E node \in Nodes(Len(stg.nodes) + 1) :
          LET ps == SeqPushes(node, 0)
          IN /\ queue' = PushAll(queue, ps)
             /\ stg' = [stg EXCEPT !.nodes = Append(@, node), !.pushed = @ \o ps]
    /\ UNCHANGED <<pc, emitFrame>>

\* emit(item, sched_time) of a single item: a register move at a cycle, or
\* filed with the scheduled time -1
EmitItem ==
    /\ pc = "emit"
    /\ Len(stg.nodes) < MaxNodes
    /\ \E t \in (0 - 1) .. MaxStep :
          LET id == Len(stg.nodes) + 1
              node == [id |-> id, kind |-> "move", t |-> t, latency |-> 1, target |-> TRUE]
              item == AHDL_MOVE(<<"x", id>>, "y")
          IN /\ queue' = push(queue, t, item)
             /\ stg' = [stg EXCEPT !.nodes = Append(@, node),
                                   !.pushed = Append(@, <<t, item>>)]
    /\ UNCHANGED <<pc, emitFrame>>

\* _build_states_for_block, the loop over scheduled_items.pop(): the state
\* of every (step, items) pair
RECURSIVE StatesOfPairs(_, _)
StatesOfPairs(b, pairs) ==
    IF pairs = <<>> THEN <<>>
    ELSE <<StateOfStep(b, pairs[1][1] + 1, pairs[1][2])>> \o StatesOfPairs(b, Tail(pairs))

BuildStates ==
    /\ pc = "emit"
    /\ queue # <<>>
    /\ pc' = "emit_built"
    /\ stg' = [stg EXCEPT !.states = StatesOfPairs(1, pop(queue))]
    /\ UNCHANGED <<queue, emitFrame>>

NextEmit == EmitNode \/ EmitItem \/ BuildStates

SpecEmit == InitEmit /\ [][NextEmit]_vars

----------------------------------------------------------------------------
(* Properties of the scheduled items.                                      *)

StatesBuilt == pc = "emit_built"

\* the items pushed with a scheduled time that Key maps to cycle c, in the
\* order of the pushes
RECURSIVE ItemsPushedFrom(_, _, _)
ItemsPushedFrom(keyOf, c, k) ==
    IF k > Len(stg.pushed) THEN <<>>
    ELSE (IF keyOf[stg.pushed[k][1]] = c THEN <<stg.pushed[k][2]>> ELSE <<>>)
         \o ItemsPushedFrom(keyOf, c, k + 1)

PushedTimes == {stg.pushed[k][1] : k \in DOMAIN stg.pushed}

\* pop yields one group per cycle keyOf gives the pushes, in strictly
\* increasing order of the cycle, with the items of the cycle in push order,
\* and every group became one state
GroupsBy(keyOf) ==
    LET pairs == pop(queue)
    IN /\ {pairs[k][1] : k \in DOMAIN pairs} = {keyOf[t] : t \in PushedTimes}
       /\ Len(pairs) = Cardinality(PushedTimes)
       /\ \A k \in DOMAIN pairs :
             /\ k > 1 => pairs[k - 1][1] < pairs[k][1]
             /\ pairs[k][2] = ItemsPushedFrom(keyOf, pairs[k][1], 1)
       /\ Len(stg.states) = Len(pairs)
       /\ \A k \in DOMAIN pairs :
             /\ stg.states[k].step = pairs[k][1] + 1
             /\ SubSeq(stg.states[k].codes, 1, Len(pairs[k][2])) = pairs[k][2]

\* C21: for any sequence of push calls pop yields one (cycle, items) group
\* per distinct cycle in strictly increasing cycle order, the items pushed
\* with the same cycle share one group in push order, and each group became
\* exactly one State.  The cycle of a push with the scheduled time -1 is
\* sys.maxsize, the key push files it under.
C21_GroupPerCycle ==
    StatesBuilt => GroupsBy([t \in PushedTimes |-> IF t = 0 - 1 THEN maxsize ELSE t])

\* C21, its case: states were built from pushes that were not made in cycle
\* order, two of them with the same cycle
C21_Witness ==
    /\ StatesBuilt
    /\ Len(stg.states) >= 2
    /\ \E j, k \in DOMAIN stg.pushed :
          j < k /\ stg.pushed[j][1] > stg.pushed[k][1] /\ stg.pushed[k][1] >= 0
    /\ \E j, k \in DOMAIN stg.pushed : j < k /\ stg.pushed[j][1] = stg.pushed[k][1]

\* the pushes made for node n, in order
RECURSIVE PushesOfFrom(_, _)
PushesOfFrom(n, k) ==
    IF k > Len(stg.pushed) THEN <<>>
    ELSE (IF stg.pushed[k][2][1] = "SEQ" /\ stg.pushed[k][2][2] = <<n.kind, n.id>>
          THEN <<stg.pushed[k]>> ELSE <<>>)
         \o PushesOfFrom(n, k + 1)

\* node n was expanded into exactly count sub-steps numbered 0 .. count - 1
\* and emitted at the cycles t, t + 1, ..., t + count - 1
ExpandedInto(n, count) ==
    LET ps == PushesOfFrom(n, 1)
    IN /\ Len(ps) = count
       /\ \A i \in 1 .. Len(ps) :
             /\ ps[i] = <<n.t + i - 1, AHDL_SEQ_step(<<n.kind, n.id>>, i - 1, count)>>
             /\ n.t + i - 1 \in DOMAIN queue
             /\ \E j \in DOMAIN queue[n.t + i - 1] : queue[n.t + i - 1][j] = ps[i][2]

MultiCycleNodes == {stg.nodes[k] : k \in {j \in DOMAIN stg.nodes : stg.nodes[j].kind \in MultiCycle}}

----------------------------------------------------------------------------
(* Properties of the STG builder: the init and finish states.              *)

\* every region of the scope is built (the resolve pass keeps the states)
STGBuilt == pc \in {"stg_resolve", "stg_done"}

MainStates == stg.states[1]

Holds(st, factor) == \E k \in DOMAIN st.codes : st.codes[k] = AHDL_SEQ(factor)

\* the main region is one block that yields one state
SingleState ==
    Len(stg.blocks) = 1 /\ Len(ScheduledItems(stg.blocks[1])) <= 1

\* C23 (as stated): the state list of the main STG of an ordinary callable
\* begins with a prolog state holding AHDL_CALLEE_PROLOG and ends with a
\* finish state holding AHDL_CALLEE_EPILOG, whatever the number of blocks
\* and states.
C23_PrologAndEpilog ==
    STGBuilt /\ stg.kind = "callable" =>
        /\ Holds(MainStates[1], "CALLEE_PROLOG")
        /\ Holds(Last(MainStates), "CALLEE_EPILOG")

\* C23 (amended): the state list ends with a finish state holding
\* AHDL_CALLEE_EPILOG, and begins with a prolog state holding
\* AHDL_CALLEE_PROLOG unless the region is a single block that yields a
\* single state: then no prolog state is built and the finish state is the
\* only state.
C23_PrologUnlessSingleState ==
    STGBuilt /\ stg.kind = "callable" =>
        /\ Last(MainStates).name = <<Len(stg.blocks), "FINISH">>
        /\ Holds(Last(MainStates), "CALLEE_EPILOG")
        /\ \A k \in DOMAIN MainStates :
              /\ Holds(MainStates[k], "CALLEE_EPILOG") => k = Len(MainStates)
              /\ Holds(MainStates[k], "CALLEE_PROLOG") => k = 1
        /\ IF SingleState
           THEN Len(MainStates) = 1 /\ ~Holds(MainStates[1], "CALLEE_PROLOG")
           ELSE /\ MainStates[1].name = <<1, "INIT">>
                /\ MainStates[1].step = 0
                /\ Holds(MainStates[1], "CALLEE_PROLOG")
                /\ Len(MainStates) >= 2

\* C23, its case: a callable of two blocks, the first of two steps, with
\* its prolog state first and its finish state last
C23_Witness ==
    /\ STGBuilt /\ stg.kind = "callable"
    /\ Len(stg.blocks) = 2
    /\ Len(MainStates) >= 4
    /\ Holds(MainStates[1], "CALLEE_PROLOG")
    /\ Holds(Last(MainStates), "CALLEE_EPILOG")

StateNamed(name) == CHOOSE st \in StatesOfScope : st.name = name

\* the init and the finish state of the main STG
MainInit == StateNamed(stg.init_state[1][1])

MainFinish == StateNamed(stg.finish_state[1][1])

LastBlock == stg.blocks[Len(stg.blocks)]

\* the last block of the main region names the block control goes to: it
\* ends in a JUMP or in a CJUMP on a constant condition
LastBlockJumps ==
    LastBlock.stm.op = "JUMP" \/ (LastBlock.stm.op = "CJUMP" /\ LastBlock.stm.const)

\* the FINISH state appended for a worker falls through to itself
WorkerFinishLoops ==
    stg.kind = "worker" =>
        /\ MainFinish = Last(MainStates)
        /\ MainFinish.name = <<Len(stg.blocks), "FINISH">>
        /\ MainFinish.codes = <<AHDL_TRANSITION(StateRef(MainFinish.name))>>

\* C24 (as stated): after STGBuilder.process the finish state of the main STG
\* of a scope that is neither worker nor testbench transitions to the init
\* state of the STG; the FINISH state appended for a worker transitions to
\* itself.
C24_FinishToInit ==
    STGDone =>
        /\ stg.kind = "callable" =>
              TransitionsOfState(MainFinish) = {AHDL_TRANSITION(StateRef(MainInit.name))}
        /\ WorkerFinishLoops

\* C24 (amended): the finish state of the main STG of such a scope
\* transitions to the init state of the STG, unless the last block of the
\* region ends in a JUMP or in a CJUMP on a constant condition: then it
\* transitions to the first state built for the block jumped to.  The
\* FINISH state appended for a worker transitions to itself.
C24_FinishToInitOrJumpTarget ==
    STGDone =>
        /\ stg.kind = "callable" =>
              TransitionsOfState(MainFinish) =
                  {AHDL_TRANSITION(StateRef(
                      IF LastBlockJumps
                      THEN stg.blk2states[LastBlock.stm.targets[1]][1]
                      ELSE MainInit.name))}
        /\ WorkerFinishLoops

\* C24, its case: a resolved callable of several states whose last block
\* returns; its finish state transitions to its INIT state
C24_Witness ==
    /\ STGDone /\ stg.kind = "callable"
    /\ Len(MainStates) >= 3
    /\ ~LastBlockJumps
    /\ MainInit.name = <<1, "INIT">>
    /\ Last(MainFinish.codes) = AHDL_TRANSITION(StateRef(<<1, "INIT">>))

\* the regions of the scope that were built
Regions == {s \in 1..2 : stg.states[s] # <<>>}

\* C25: once the builders have finished, every STG of the scope (the
\* state-machine region, the finite-loop pipeline region, the worker
\* pipeline region) has one init state and one finish state, both set and
\* both among the states of that STG.
C25_OneInitOneFinish ==
    STGBuilt =>
        \A s \in Regions :
            /\ Len(stg.init_state[s]) = 1 /\ Len(stg.finish_state[s]) = 1
            /\ \E k \in DOMAIN stg.states[s] :
                   stg.states[s][k].name = stg.init_state[s][1]
            /\ \E k \in DOMAIN stg.states[s] :
                   stg.states[s][k].name = stg.finish_state[s][1]

----------------------------------------------------------------------------
(* Part 5: resolve_transition on its own.  A state, plain or pipelined,   *)
(* is drawn with any codes and resolved once.                              *)

\* codes of a state (of the end stage of a pipeline state) at most, and
\* stages of a pipeline state at most
MaxCodes == 2
MaxEndStages == 2

\* the asserts of State.resolve_transition: a transition to something
\* other than None or a Block, a branch that is not one transition to a Block
resolve_asserts(state) ==
    LET code == Last(state.codes)
    IN IF is_a(code, {"TRANSITION"})
       THEN code[2] # None /\ code[2][1] # "Block"
       ELSE IF is_a(code, {"TRANSITION_IF"})
            THEN \E i \in DOMAIN code[3] :
                    \/ Len(code[3][i]) # 1
                    \/ ~is_a(code[3][i][1], {"TRANSITION"})
                    \/ code[3][i][1][2][1] # "Block"
            ELSE FALSE

PipelineState_resolve_asserts_never(stages) == FALSE

\* the asserts of PipelineState.resolve_transition: a branch that does not
\* end in a transition, and "assert False" for a last code of the end stage
\* that is neither kind of transition
PipelineState_resolve_asserts(stages) ==
    LET code == Last(Last(stages))
    IN IF is_a(code, {"TRANSITION_IF"})
       THEN \E i \in DOMAIN code[3] : ~is_a(Last(code[3][i]), {"TRANSITION"})
       ELSE ~is_a(code, {"TRANSITION"})

Front(seq) == SubSeq(seq, 1, Len(seq) - 1)

\* the last transition of every branch, its Block replaced by the first
\* state built for the block
PipelineResolveBranches(code, blk2states) ==
    AHDL_TRANSITION_IF(code[2],
        [i \in DOMAIN code[3] |->
            LET transition == Last(code[3][i])
            IN Front(code[3][i]) \o
               <<IF transition[2][1] = "Block"
                 THEN AHDL_TRANSITION(StateRef(blk2states[transition[2][2]][1]))
                 ELSE transition>>])

RECURSIVE PipelineStagesFrom(_, _, _, _)
\* the loop over self.stages from stage j on: every wait construct gets the
\* transition, and once one was found the last code of the stage is popped
PipelineStagesFrom(stages, transition, move_transition, j) ==
    IF j > Len(stages) THEN <<>>
    ELSE LET codes == stages[j]
             move == move_transition
                        \/ \E k \in DOMAIN codes : is_a(codes[k], {"META_WAIT"})
             given == [k \in DOMAIN codes |->
                         IF is_a(codes[k], {"META_WAIT"})
                         THEN AHDL_META_WAIT(<<transition>>) ELSE codes[k]]
         IN <<IF move THEN Front(given) ELSE given>>
            \o PipelineStagesFrom(stages, transition, move, j + 1)

\* PipelineState.resolve_transition: the codes of the stages afterwards
PipelineState_resolve_transition(stages, next_state, blk2states) ==
    LET code == Last(Last(stages))
        transition == IF is_a(code, {"TRANSITION_IF"})
                      THEN PipelineResolveBranches(code, blk2states) ELSE code
        resolved == [j \in DOMAIN stages |->
                        IF j = Len(stages)
                        THEN Front(stages[j]) \o <<transition>> ELSE stages[j]]
    IN PipelineStagesFrom(resolved, transition, FALSE, 1)

\* the codes a state is drawn from
ResolveCodes ==
    {AHDL_MOVE("x", "y"), AHDL_INLINE("$finish()"), AHDL_META_WAIT(<<>>),
     AHDL_TRANSITION(None), AHDL_TRANSITION(Block(1)),
     AHDL_TRANSITION_IF(<<"cond">>, <<<<AHDL_TRANSITION(Block(2))>>>>)}

CodeLists == UNION {[1..n -> ResolveCodes] : n \in 1..MaxCodes}

\* n stages: the end stage holds any codes, a stage before it one code
StageLists(n) ==
    {[j \in 1..n |-> IF j = n THEN end ELSE <<one[j]>>] :
        end \in CodeLists, one \in [1..n -> ResolveCodes]}

ResolveBlk2states == [b \in 1..2 |-> <<<<b, "S", 0>>>>]

InitResolve ==
    /\ pc = "resolve"
    /\ IdlePipeline
    /\ ssa = <<>>
    /\ \E pipelined \in BOOLEAN :
          \E n \in 1..(IF pipelined THEN MaxEndStages ELSE 1) :
             \E stages \in StageLists(n) :
                stg = [pipelined |-> pipelined, stages |-> stages, out |-> <<>>]

\* one call of resolve_transition(next_state, blk2states) on the state; a
\* plain state keeps its codes in stages[1]
Resolve ==
    /\ pc = "resolve"
    /\ LET state == [codes |-> stg.stages[1]]
           next_state == <<2, "S", 0>>
       IN IF stg.pipelined
          THEN IF PipelineState_resolve_asserts(stg.stages)
               THEN pc' = "resolve_failed" /\ stg' = stg
               ELSE /\ pc' = "resolved"
                    /\ stg' = [stg EXCEPT !.out =
                                  PipelineState_resolve_transition(
                                      stg.stages, next_state, ResolveBlk2states)]
          ELSE IF resolve_asserts(state)
               THEN pc' = "resolve_failed" /\ stg' = stg
               ELSE /\ pc' = "resolved"
                    /\ stg' = [stg EXCEPT !.out =
                                  <<resolve_transition(state, next_state,
                                                       ResolveBlk2states)>>]
    /\ UNCHANGED stgFrame

NextResolve == Resolve

SpecResolve == InitResolve /\ [][NextResolve]_vars

----------------------------------------------------------------------------
(* Properties of resolve_transition.                                       *)

ResolveReturned == pc \in {"resolved", "resolve_failed"}

\* the last code of the state that was resolved (of its end stage, for a
\* pipeline state)
LastCode == Last(Last(stg.stages))

LastIsTerminal == is_a(LastCode, {"TRANSITION", "TRANSITION_IF", "META_WAIT"})

----------------------------------------------------------------------------
(* Part 6: the signals of a scope.  Signal objects live in a heap, so that *)
(* two calls returning the same object can be told from two calls          *)
(* returning equal objects.                                                *)

\* calls of gen_sig at most
MaxCalls == 3

SigNames == {"x", "P_0_valid"}
SigWidths == 1..2
\* the tag argument: None, or the tags to add
SigTags == {{}, {"reg"}, {"net", "pipeline_ctrl"}}

Signal(name, width, tag) == [name |-> name, width |-> width, tags |-> tag]

gen_sig_always_new(scope, name, width, tag) ==
    [heap |-> Append(scope.heap, Signal(name, width, tag)),
     signals |-> [n \in DOMAIN scope.signals \cup {name} |->
                     IF n = name THEN Len(scope.heap) + 1 ELSE scope.signals[n]],
     ret |-> Len(scope.heap) + 1]

\* Scope.gen_sig: the heap and self.signals afterwards, and the object
\* returned
gen_sig(scope, name, width, tag) ==
    IF name \in DOMAIN scope.signals
    THEN LET found == scope.signals[name]
         IN [heap |-> [o \in DOMAIN scope.heap |->
                          IF o = found
                          THEN [name |-> scope.heap[o].name, width |-> width,
                                tags |-> scope.heap[o].tags \cup tag]
                          ELSE scope.heap[o]],
             signals |-> scope.signals,
             ret |-> found]
    ELSE [heap |-> Append(scope.heap, Signal(name, width, tag)),
          signals |-> [n \in DOMAIN scope.signals \cup {name} |->
                          IF n = name THEN Len(scope.heap) + 1 ELSE scope.signals[n]],
          ret |-> Len(scope.heap) + 1]

\* Scope.signal: the object under the name, or None (0)
signal(scope, name) ==
    IF name \in DOMAIN scope.signals THEN scope.signals[name] ELSE 0

\* a scope without signals; calls is the record of the calls made
InitSignals ==
    /\ pc = "signals"
    /\ IdlePipeline
    /\ ssa = <<>>
    /\ stg = [heap |-> <<>>, signals |-> [n \in {} |-> 0], calls |-> <<>>]

GenSig ==
    /\ pc = "signals"
    /\ Len(stg.calls) < MaxCalls
    /\ \E name \in SigNames, width \in SigWidths, tag \in SigTags :
          LET r == gen_sig(stg, name, width, tag)
          IN stg' = [heap |-> r.heap, signals |-> r.signals,
                     calls |-> Append(stg.calls,
                                      [name |-> name, tag |-> tag, ret |-> r.ret])]
    /\ UNCHANGED <<pc, stgFrame>>

NextSignals == GenSig

SpecSignals == InitSignals /\ [][NextSignals]_vars

----------------------------------------------------------------------------
(* Properties of the signals of a scope.                                   *)

\* C27: after any sequence of gen_sig calls the scope holds at most one
\* Signal per name: a later gen_sig with the name of an earlier one returned
\* the object the earlier one returned, which has the tags of the later call
\* too; no other object has the name, and signal(name) returns that object.
C27_OneSignalPerName ==
    pc = "signals" =>
        /\ \A i, j \in DOMAIN stg.calls :
              i < j /\ stg.calls[i].name = stg.calls[j].name =>
                  /\ stg.calls[j].ret = stg.calls[i].ret
                  /\ stg.calls[i].tag \cup stg.calls[j].tag
                        \subseteq stg.heap[stg.calls[j].ret].tags
        /\ \A o, p \in DOMAIN stg.heap :
              stg.heap[o].name = stg.heap[p].name => o = p
        /\ \A i \in DOMAIN stg.calls :
              /\ signal(stg, stg.calls[i].name) = stg.calls[i].ret
              /\ stg.heap[stg.calls[i].ret].name = stg.calls[i].name

\* C27 witness: a name was given to gen_sig twice with different tags, and
\* another name in between
C27_Witness ==
    /\ pc = "signals"
    /\ Len(stg.calls) = 3
    /\ stg.calls[1].name = stg.calls[3].name
    /\ stg.calls[1].name # stg.calls[2].name
    /\ stg.calls[1].tag = {"reg"} /\ stg.calls[3].tag = {"net", "pipeline_ctrl"}

----------------------------------------------------------------------------
(* Part 7: a module run by the Python interpreter (tests/io/queue02.py):   *)
(* the testbench thread and the two worker threads of the module, chained  *)
(* through three queues.                                                   *)

\* items the testbench writes at most
MaxItems == 4
\* maxsize of the three queues
queue_maxsize == 2

simFrame == <<pstate, sig, hdlsigs, regs, en, ssa, stg>>

IdleSim ==
    /\ pstate = PipelineState(FALSE) /\ sig = NoSig /\ hdlsigs = {}
    /\ regs = IdleRegs /\ en = <<>> /\ ssa = <<>> /\ stg = <<>>

\* Queue.rd and Queue.wr of a queue that lets them through: the queue
\* afterwards (rd returns the head)
Queue_rd(q) == Tail(q)

Queue_wr(q, d) == Append(q, d)

\* a reader waits on an empty queue, a writer on a full one
can_rd(q) == q # <<>>

can_wr(q) == Len(q) < queue_maxsize

WorkerQueues_from_in(w) == <<"in_q", IF w = 1 THEN "tmp_q" ELSE "out_q">>

\* the arguments of the two append_worker calls: in_q and out_q of main
WorkerQueues(w) == IF w = 1 THEN <<"in_q", "tmp_q">> ELSE <<"tmp_q", "out_q">>

\* the module is constructed and the testbench is called with n items to
\* write
InitQueue02 ==
    /\ IdleSim
    /\ \E n \in 1..MaxItems :
          data = [n |-> n, i |-> 1, d |-> <<0, 0>>,
                  running |-> FALSE, io |-> FALSE]
    /\ pc = [test |-> "start", w |-> <<"idle", "idle">>]
    /\ queue = [in_q |-> <<>>, tmp_q |-> <<>>, out_q |-> <<>>]
    /\ obs = <<>>

\* _testbench_decorator: module_instance._start()
ModuleStart ==
    /\ pc.test = "start"
    /\ pc' = [test |-> "wr", w |-> <<"loop", "loop">>]
    /\ data' = [data EXCEPT !.running = TRUE, !.io = TRUE]
    /\ UNCHANGED <<queue, obs, simFrame>>

\* test: q.in_q.wr(i)
TestWr ==
    /\ pc.test = "wr"
    /\ can_wr(queue.in_q)
    /\ queue' = [queue EXCEPT !.in_q = Queue_wr(@, data.i)]
    /\ IF data.i < data.n
       THEN data' = [data EXCEPT !.i = @ + 1] /\ pc' = pc
       ELSE data' = [data EXCEPT !.i = 1] /\ pc' = [pc EXCEPT !.test = "rd"]
    /\ UNCHANGED <<obs, simFrame>>

\* test: assert i == q.out_q.rd(); a failed assert ends the testbench
\* without _stop
TestRd ==
    /\ pc.test = "rd"
    /\ can_rd(queue.out_q)
    /\ queue' = [queue EXCEPT !.out_q = Queue_rd(@)]
    /\ obs' = Append(obs, Head(queue.out_q))
    /\ IF Head(queue.out_q) # data.i
       THEN pc' = [pc EXCEPT !.test = "failed"] /\ data' = data
       ELSE IF data.i < data.n
            THEN data' = [data EXCEPT !.i = @ + 1] /\ pc' = pc
            ELSE data' = data /\ pc' = [pc EXCEPT !.test = "stop"]
    /\ UNCHANGED simFrame

\* _module_stop: _is_worker_running = False, and after the prejoins
\* io._disable()
ModuleStop ==
    /\ pc.test \in {"stop", "disable"}
    /\ IF pc.test = "stop"
       THEN /\ data' = [data EXCEPT !.running = FALSE]
            /\ pc' = [pc EXCEPT !.test = "disable"]
       ELSE /\ data' = [data EXCEPT !.io = FALSE]
            /\ pc' = [pc EXCEPT !.test = "join"]
    /\ UNCHANGED <<queue, obs, simFrame>>

\* _module_stop: w.join() for every worker
ModuleJoin ==
    /\ pc.test = "join"
    /\ \A w \in 1..2 : pc.w[w] = "exit"
    /\ pc' = [pc EXCEPT !.test = "done"]
    /\ UNCHANGED <<queue, data, obs, simFrame>>

\* main of worker w: "while is_worker_running()", "d = in_q.rd()",
\* "out_q.wr(d)"; a worker inside rd or wr when the io is disabled leaves
\* with PolyphonyIOException
Worker(w) ==
    LET in_q == WorkerQueues(w)[1]
        out_q == WorkerQueues(w)[2]
    IN /\ \/ /\ pc.w[w] = "loop"
             /\ pc' = [pc EXCEPT !.w[w] = IF data.running THEN "rd" ELSE "exit"]
             /\ UNCHANGED <<queue, data>>
          \/ /\ pc.w[w] = "rd" /\ data.io /\ can_rd(queue[in_q])
             /\ data' = [data EXCEPT !.d[w] = Head(queue[in_q])]
             /\ queue' = [queue EXCEPT ![in_q] = Queue_rd(@)]
             /\ pc' = [pc EXCEPT !.w[w] = "wr"]
          \/ /\ pc.w[w] = "wr" /\ data.io /\ can_wr(queue[out_q])
             /\ queue' = [queue EXCEPT ![out_q] = Queue_wr(@, data.d[w])]
             /\ pc' = [pc EXCEPT !.w[w] = "loop"]
             /\ data' = data
          \/ /\ pc.w[w] \in {"rd", "wr"} /\ ~data.io /\ pc.test = "join"
             /\ pc' = [pc EXCEPT !.w[w] = "exit"]
             /\ UNCHANGED <<queue, data>>
       /\ UNCHANGED <<obs, simFrame>>

Worker1 == Worker(1)

Worker2 == Worker(2)

NextQueue02 ==
    ModuleStart \/ TestWr \/ TestRd \/ ModuleStop \/ ModuleJoin \/ Worker1 \/ Worker2

SpecQueue02 == InitQueue02 /\ [][NextQueue02]_vars

\* the interpreter runs every thread that can take a step
SpecQueue02Fair ==
    /\ SpecQueue02
    /\ WF_vars(ModuleStart) /\ WF_vars(TestWr) /\ WF_vars(TestRd)
    /\ WF_vars(ModuleStop) /\ WF_vars(ModuleJoin)
    /\ WF_vars(Worker1) /\ WF_vars(Worker2)

----------------------------------------------------------------------------
(* Properties of the chained workers.                                      *)

\* the items the testbench writes to in_q, in order
Written == [k \in 1..data.n |-> k]

RECURSIVE Flatten(_)
Flatten(seqs) == IF seqs = <<>> THEN <<>> ELSE Head(seqs) \o Flatten(Tail(seqs))

Held(w) == IF pc.w[w] = "wr" THEN <<data.d[w]>> ELSE <<>>

\* the items on their way, from the output end to the input end
InFlight ==
    Flatten(<<obs, queue.out_q, Held(2), queue.tmp_q, Held(1), queue.in_q>>)

\* what was read from out_q and what is on its way is what was written so
\* far: nothing lost, nothing twice, nothing out of order
Delivered ==
    /\ pc.test # "failed"
    /\ \E k \in 0..data.n : InFlight = SubSeq(Written, 1, k)
    /\ pc.test \in {"stop", "disable", "join", "done"} => obs = Written

AllRead == obs = Written /\ pc.test = "done"

----------------------------------------------------------------------------
(* Part 8: a timed module run by the Python interpreter                    *)
(* (tests/timed/timed03.py): the worker and the testbench advance in       *)
(* lockstep, from clkfence to clkfence.                                    *)

\* largest value the testbench writes to the port
MaxInput == 5

timedFrame == <<queue, pstate, sig, hdlsigs, en, ssa, stg>>

\* a write to a Reg or to a Port is kept until the clock edge
write(pend, name, value) ==
    [n \in DOMAIN pend \cup {name} |-> IF n = name THEN value ELSE pend[n]]

\* the clock edge: the writes of the cycle become the values read
commit(cur, pend) ==
    [n \in DOMAIN cur |-> IF n \in DOMAIN pend THEN pend[n] ELSE cur[n]]

WorkerStms_no_first_fence ==
    <<"regs", "x = i.rd", "assert x", "clkfence",
      "y.v = i.rd", "assert y.v", "clkfence",
      "z.v = i.rd", "assert z.v", "clkfence",
      "o.wr", "clkfence">>

\* the statements of timed03.w
WorkerStms ==
    <<"regs", "clkfence",
      "x = i.rd", "assert x", "clkfence",
      "y.v = i.rd", "assert y.v", "clkfence",
      "z.v = i.rd", "assert z.v", "clkfence",
      "o.wr", "clkfence">>

\* the statements of test
TestStms ==
    <<"i.wr a", "clkfence", "i.wr b", "clkfence", "i.wr c", "clkfence",
      "clkfence", "clkfence", "assert o.rd">>

Stms(th) == IF th = "w" THEN WorkerStms ELSE TestStms

Finished(th) == pc[th] = Len(Stms(th))

\* the module is constructed and the testbench called; the testbench will
\* write 3, b and c and expect b + c (4 and 5 in the test)
InitTimed03 ==
    /\ queue = <<>> /\ pstate = PipelineState(FALSE) /\ sig = NoSig
    /\ hdlsigs = {} /\ en = <<>> /\ ssa = <<>> /\ stg = <<>>
    /\ pc = [w |-> 0, t |-> 0, waiting |-> {}, failed |-> FALSE]
    /\ regs = [i |-> 0, o |-> 0]
    /\ \E b \in 3..MaxInput, c \in 3..MaxInput :
          data = [pend |-> [n \in {} |-> 0], x |-> 0, a |-> 3, b |-> b, c |-> c]
    /\ obs = <<>>

\* the next statement of thread th, a clkfence excepted
Run(th) ==
    /\ ~pc.failed /\ ~Finished(th) /\ th \notin pc.waiting
    /\ LET stm == Stms(th)[pc[th] + 1]
           ok(cond) == /\ pc' = [pc EXCEPT ![th] = @ + 1, !.failed = ~cond]
                       /\ UNCHANGED <<regs, data, obs>>
           wr(name, value) ==
               /\ data' = [data EXCEPT !.pend = write(@, name, value)]
               /\ pc' = [pc EXCEPT ![th] = @ + 1]
               /\ UNCHANGED <<regs, obs>>
       IN CASE stm = "clkfence" ->
                 /\ pc' = [pc EXCEPT !.waiting = @ \cup {th}]
                 /\ UNCHANGED <<regs, data, obs>>
            [] stm = "regs" ->
                 /\ regs' = [n \in DOMAIN regs \cup {"y", "z"} |->
                                IF n \in {"y", "z"} THEN 0 ELSE regs[n]]
                 /\ pc' = [pc EXCEPT ![th] = @ + 1]
                 /\ UNCHANGED <<data, obs>>
            [] stm = "x = i.rd" ->
                 /\ data' = [data EXCEPT !.x = regs.i]
                 /\ pc' = [pc EXCEPT ![th] = @ + 1]
                 /\ UNCHANGED <<regs, obs>>
            [] stm = "assert x" -> ok(3 = data.x)
            [] stm = "y.v = i.rd" -> wr("y", regs.i)
            [] stm = "assert y.v" -> ok(regs.y = 0)
            [] stm = "z.v = i.rd" -> wr("z", regs.i)
            [] stm = "assert z.v" -> ok(regs.z = 0)
            [] stm = "o.wr" -> wr("o", regs.y + regs.z)
            [] stm = "i.wr a" -> wr("i", data.a)
            [] stm = "i.wr b" -> wr("i", data.b)
            [] stm = "i.wr c" -> wr("i", data.c)
            [] stm = "assert o.rd" ->
                 /\ obs' = Append(obs, regs.o)
                 /\ pc' = [pc EXCEPT ![th] = @ + 1,
                                     !.failed = (data.b + data.c # regs.o)]
                 /\ UNCHANGED <<regs, data>>
    /\ UNCHANGED timedFrame

WorkerRun == Run("w")

TestRun == Run("t")

\* every thread that is still running waits in clkfence: the clock
\* advances, the writes of the cycle take effect and the threads go on
ClockEdge ==
    /\ ~pc.failed
    /\ pc.waiting # {}
    /\ \A th \in {"w", "t"} : Finished(th) \/ th \in pc.waiting
    /\ regs' = commit(regs, data.pend)
    /\ data' = [data EXCEPT !.pend = [n \in {} |-> 0]]
    /\ pc' = [w |-> IF "w" \in pc.waiting THEN pc.w + 1 ELSE pc.w,
              t |-> IF "t" \in pc.waiting THEN pc.t + 1 ELSE pc.t,
              waiting |-> {}, failed |-> FALSE]
    /\ UNCHANGED <<obs, timedFrame>>

NextTimed03 == WorkerRun \/ TestRun \/ ClockEdge

SpecTimed03 == InitTimed03 /\ [][NextTimed03]_vars

----------------------------------------------------------------------------
(* Properties of the timed module.                                         *)

Executed(th, stm) == \E k \in 1..pc[th] : Stms(th)[k] = stm

\* the clock cycle thread th is in: the clkfences it has passed
CycleOf(th) == Cardinality({k \in 1..pc[th] : Stms(th)[k] = "clkfence"})

----------------------------------------------------------------------------
(* Part 9: _remove_useless_phi on its own.  The phis of a scope are drawn  *)
(* with any arguments, cyclic references and self references included, and *)
(* the worklist loop runs one turn at a time.                              *)

\* phis of the scope at most
MaxPhis == 2

\* the destination of phi k
PhiVar(k) == inherit_sym(Symbol("x"), k)

\* the symbols a phi argument is drawn from: two symbols defined by other
\* statements and the destinations of the n phis
PhiArgSyms(n) ==
    {inherit_sym(Symbol("x"), 0), inherit_sym(Symbol("y"), 0)}
    \cup {PhiVar(k) : k \in 1..n}

\* a phi without arguments, or at the join of two predecessors
PhiArgLists(n) ==
    {<<>>} \cup {<<<<a[1], 1>>, <<a[2], 2>>>> : a \in [1..2 -> PhiArgSyms(n)]}

\* the turns of the loop at most: each phi once, and each phi once for each
\* phi that is replaced
PhiTurns(n) == n + n * n

\* phi k is the statement of block k
InitPhi ==
    /\ pc = "phi_loop"
    /\ IdlePipeline
    /\ stg = <<>>
    /\ \E n \in 1..MaxPhis :
          \E args \in [1..n -> PhiArgLists(n)] :
             LET stms == [k \in 1..n |-> <<[PHI(PhiVar(k)) EXCEPT !.args = args[k]]>>]
             IN ssa = [stms |-> stms, failed |-> FALSE,
                       worklist |-> PhiPlacesFrom(stms, 1, 1),
                       phis |-> stms, turns |-> 0]

\* one turn of "while worklist"
PhiTurn ==
    /\ pc = "phi_loop"
    /\ ssa.worklist # <<>>
    /\ ssa.turns <= PhiTurns(Len(ssa.phis))
    /\ LET s == UselessPhiStep([stms |-> ssa.stms, failed |-> ssa.failed],
                               ssa.worklist)
       IN ssa' = [ssa EXCEPT !.stms = s.r.stms, !.failed = s.r.failed,
                             !.worklist = s.worklist, !.turns = @ + 1]
    /\ UNCHANGED <<pc, stg, pipeVars>>

\* the worklist is empty: the loop ends
PhiDone ==
    /\ pc = "phi_loop"
    /\ ssa.worklist = <<>>
    /\ pc' = "phi_done"
    /\ UNCHANGED <<ssa, stg, pipeVars>>

NextPhi == PhiTurn \/ PhiDone

SpecPhi == InitPhi /\ [][NextPhi]_vars

\* the loop goes on while it can
SpecPhiFair == SpecPhi /\ WF_vars(PhiTurn) /\ WF_vars(PhiDone)

----------------------------------------------------------------------------
(* Properties of _remove_useless_phi on its own.                           *)

\* the phis left in the blocks
RemainingPhis ==
    {ssa.stms[b][1] : b \in {c \in DOMAIN ssa.stms : IsPhi(ssa.stms[c][1])}}

PhiOf(k) == ssa.phis[k][1]

\* the phis whose value comes, through any number of phis, from a symbol
\* that no phi with arguments defines
RECURSIVE GroundedFrom(_, _)
GroundedFrom(S, turns) ==
    IF turns = 0 THEN S
    ELSE GroundedFrom(
             S \cup {k \in DOMAIN ssa.phis :
                        \E j \in DOMAIN PhiOf(k).args :
                           LET a == PhiOf(k).args[j][1]
                           IN \/ a \in {PhiVar(m) : m \in S}
                              \/ a \notin {PhiVar(m) : m \in DOMAIN ssa.phis}
                              \/ \E m \in DOMAIN ssa.phis :
                                    a = PhiVar(m) /\ PhiOf(m).args = <<>>},
             turns - 1)

Grounded == GroundedFrom({}, Len(ssa.phis))

AllGrounded ==
    \A k \in DOMAIN ssa.phis : PhiOf(k).args # <<>> => k \in Grounded

\* the loop has ended and no phi left in a block has one symbol as all its
\* non-self arguments; where every phi gets a value from outside the phis,
\* no phi is left with self arguments alone
PhiFixedPoint ==
    /\ ~ssa.failed
    /\ ssa.turns <= PhiTurns(Len(ssa.phis))
    /\ pc = "phi_done" =>
          \A phi \in RemainingPhis :
             /\ phi.args # <<>>
             /\ get_sym_if_having_only_1(phi) = NoSym
             /\ AllGrounded => NonSelfArgs(phi) # <<>>

\* C30: the worklist loop of _remove_useless_phi terminates for every phi
\* graph, phis that reference each other cyclically and phis put back on
\* the worklist after their removal included, and when it has ended no phi
\* left in a block has all its non-self argument symbols identical.
C30_WorklistTerminates == []PhiFixedPoint /\ <>(pc = "phi_done")

\* C30 witness: two phis that referenced each other, one of them put back
\* on the worklist after it was removed, and the loop has ended with both
\* removed
C30_Witness ==
    /\ pc = "phi_done"
    /\ Len(ssa.phis) = 2
    /\ \E j \in DOMAIN PhiOf(1).args : PhiOf(1).args[j][1] = PhiVar(2)
    /\ \E j \in DOMAIN PhiOf(2).args : PhiOf(2).args[j][1] = PhiVar(1)
    /\ ssa.turns > 3
    /\ RemainingPhis = {}

----------------------------------------------------------------------------
(* Properties of the SSA builder: the stacks of _rename_rec.               *)

\* count, stack and new_syms as _rename hands them to the first call
RenameStart(sc) ==
    [count |-> [sym \in SymsOfScope(sc.stms) |-> 0],
     stack |-> [sym \in SymsOfScope(sc.stms) |-> <<0>>],
     new_syms |-> {}, stms |-> sc.stms]

\* count, stack, new_syms and the statements when _rename_rec is entered
\* for the block: the parent has renamed its statements, extended the phis
\* of its successors and finished the children before this one
RECURSIVE RenameEntry(_, _)
RenameEntry(sc, block) ==
    IF block = 1 THEN RenameStart(sc)
    ELSE LET p  == CHOOSE q \in DOMAIN sc.children : block \in sc.children[q]
             s1 == RenameStmsFrom(p, 1, RenameEntry(sc, p))
             s2 == ExtendPhis(sc.g, p, s1)
         IN RenameChildren(sc, {c \in sc.children[p] : c < block}, s2)

\* the blocks _rename_rec is called for
RenamedBlocks(sc) ==
    {b \in DOMAIN sc.g : b = 1 \/ \E q \in DOMAIN sc.children : b \in sc.children[q]}

\* C31: when the call of _rename_rec for a block returns, every stack is
\* what it was when the call was entered, the versions of the phis of the
\* block included, and no stack loses its first entry 0.
C31_StackDiscipline ==
    pc = "rename" =>
        \A b \in RenamedBlocks(ssa) :
            LET entry == RenameEntry(ssa, b)
                pushed == RenameStmsFrom(b, 1, entry)
                back == _rename_rec(ssa, b, entry)
            IN /\ DOMAIN back.stack = DOMAIN entry.stack
               /\ \A sym \in DOMAIN entry.stack :
                     /\ back.stack[sym] = entry.stack[sym]
                     /\ Len(entry.stack[sym]) >= 1 /\ entry.stack[sym][1] = 0
                     /\ Len(pushed.stack[sym]) >= Len(entry.stack[sym])

\* C31 witness: a block other than the first with a phi and a child in the
\* dominator tree, entered with a version on the stack and pushing one itself
C31_Witness ==
    /\ pc = "rename"
    /\ \E b \in RenamedBlocks(ssa) \ {1} :
          LET entry == RenameEntry(ssa, b)
              pushed == RenameStmsFrom(b, 1, entry)
          IN /\ \E k \in DOMAIN ssa.stms[b] : IsPhi(ssa.stms[b][k])
             /\ ssa.children[b] # {}
             /\ \E sym \in DOMAIN entry.stack :
                   /\ Len(entry.stack[sym]) >= 2
                   /\ Len(pushed.stack[sym]) > Len(entry.stack[sym])

----------------------------------------------------------------------------
(* Part 10: _cleanup_phi on its own.  The phis of a scope are drawn with   *)
(* any number of self arguments at any place among the others.             *)

\* arguments of a phi at most
MaxArgs == 3

\* the symbols an argument of phi k is drawn from: its own destination and
\* two symbols that other statements define
CleanupArgSyms(k) ==
    {PhiVar(k), inherit_sym(Symbol("x"), 0), inherit_sym(Symbol("y"), 0)}

\* the argument lists of phi k: argument j comes from predecessor j
CleanupArgLists(k) ==
    UNION {{[j \in 1..len |-> <<a[j], j>>] : a \in [1..len -> CleanupArgSyms(k)]} :
              len \in 0..MaxArgs}

\* phi k is the statement of block k; ssa.phis keeps the phis as they were
InitCleanup ==
    /\ pc = "cleanup_phi"
    /\ IdlePipeline
    /\ stg = <<>>
    /\ \E n \in 1..MaxPhis :
          \E stms \in [1..n -> UNION {{<<[PHI(PhiVar(k)) EXCEPT !.args = args]>> :
                                          args \in CleanupArgLists(k)} : k \in 1..n}] :
             /\ \A k \in 1..n : stms[k][1].var = PhiVar(k)
             /\ ssa = [stms |-> stms, phis |-> stms]

SpecCleanup == InitCleanup /\ [][CleanupPhi]_vars

----------------------------------------------------------------------------
(* Properties of _cleanup_phi.                                             *)

\* the places of the arguments of the phi, up to place i, that are not its
\* own destination
OtherPlaces(phi, i) == {h \in 1..i : phi.args[h][1] # phi.var}

\* C32: after _cleanup_phi no phi has an argument whose symbol is the phi's
\* own destination, and every other argument is unchanged and in its
\* original order.
C32_CleanupKeepsOthers ==
    pc = "ssa_done" =>
        /\ DOMAIN ssa.stms = DOMAIN ssa.phis
        /\ \A b \in DOMAIN ssa.phis :
              LET old == ssa.phis[b][1]
                  new == ssa.stms[b][1]
              IN /\ Len(ssa.stms[b]) = 1
                 /\ IsPhi(new) /\ new.var = old.var
                 /\ \A j \in DOMAIN new.args : new.args[j][1] # new.var
                 /\ Len(new.args) = Cardinality(OtherPlaces(old, Len(old.args)))
                 /\ \A i \in OtherPlaces(old, Len(old.args)) :
                       new.args[Cardinality(OtherPlaces(old, i))] = old.args[i]

\* C32 witness: a phi with two self arguments, one between two other
\* arguments, has been cleaned up and the two others are left in order
C32_Witness ==
    /\ pc = "ssa_done"
    /\ \E b \in DOMAIN ssa.phis :
          LET old == ssa.phis[b][1]
          IN /\ Len(old.args) = 3
             /\ old.args[1][1] # old.var /\ old.args[2][1] = old.var
             /\ old.args[3][1] # old.var /\ old.args[1][1] # old.args[3][1]
             /\ ssa.stms[b][1].args = <<old.args[1], old.args[3]>>
    /\ \E b \in DOMAIN ssa.phis :
          LET old == ssa.phis[b][1]
          IN /\ Len(old.args) >= 2
             /\ \A j \in DOMAIN old.args : old.args[j][1] = old.var
             /\ ssa.stms[b][1].args = <<>>

----------------------------------------------------------------------------
(* Part 11: STGBuilder._process_dfg on its own.  The region, its           *)
(* scheduling and the flags of the scope are drawn; the step picks the     *)
(* builder and calls its build.                                            *)

\* largest index of a region in scope.dfgs(); region 0 is the main one
MaxIndex == 2

\* synth_params['scheduling']: 'pipeline' and two values that are not
Schedulings == {"pipeline", "sequential", "parallel"}

\* the class builder is bound to when _process_dfg reaches builder.build:
\* "unbound" where no branch has assigned it
SelectBuilder(is_main, scheduling, scope_scheduling, is_worker, loop_info) ==
    IF scheduling = "pipeline"
    THEN IF ~is_main
         THEN IF is_worker /\ ~loop_info
              THEN "WorkerPipelineStageBuilder"
              ELSE "LoopPipelineStageBuilder"
         ELSE IF is_main /\ scope_scheduling # "pipeline"
              THEN "StateBuilder"
              ELSE "unbound"
    ELSE "StateBuilder"

\* stg_name of _process_dfg
StgName(index, in_module, is_method) ==
    LET orig == IF in_module THEN "parent.orig_name" ELSE "scope.orig_name"
        name == IF index = 0 THEN <<orig>> ELSE <<orig, "_L", index>>
    IN IF ~in_module /\ is_method THEN <<"parent.orig_name", "_">> \o name
       ELSE name

InitSelect ==
    /\ pc = "process_dfg"
    /\ IdlePipeline
    /\ ssa = <<>>
    /\ \E index \in 0..MaxIndex, scheduling \in Schedulings,
          scope_scheduling \in Schedulings,
          is_worker \in BOOLEAN, loop_info \in BOOLEAN,
          in_module \in BOOLEAN, is_method \in BOOLEAN :
          stg = [index |-> index, scheduling |-> scheduling,
                 scope_scheduling |-> scope_scheduling,
                 is_worker |-> is_worker, loop_info |-> loop_info,
                 in_module |-> in_module, is_method |-> is_method,
                 name |-> <<>>, builder |-> "unbound"]

\* _process_dfg(index, dfg): the STG is named, the builder is chosen and
\* builder.build(dfg, is_main) is called; the call raises UnboundLocalError
\* where builder was never assigned
ProcessDfg ==
    /\ pc = "process_dfg"
    /\ LET builder == SelectBuilder(stg.index = 0, stg.scheduling,
                                    stg.scope_scheduling, stg.is_worker,
                                    stg.loop_info)
       IN /\ stg' = [stg EXCEPT
                        !.name = StgName(stg.index, stg.in_module, stg.is_method),
                        !.builder = builder]
          /\ pc' = IF builder = "unbound" THEN "UnboundLocalError" ELSE "built"
    /\ UNCHANGED stgFrame

SpecSelect == InitSelect /\ [][ProcessDfg]_vars

----------------------------------------------------------------------------
(* Properties of _process_dfg.                                             *)

\* C33: _process_dfg selects a builder for every region: a region whose
\* scheduling is 'pipeline' and that is not the main region is built by
\* WorkerPipelineStageBuilder when the scope is a worker and the region has
\* no loop info, and by LoopPipelineStageBuilder otherwise; every other
\* region, every main region included, is built by StateBuilder; no
\* combination of (is_main, region scheduling, scope scheduling) leaves the
\* region without a builder.
C33_EveryRegionHasBuilder ==
    pc # "process_dfg" =>
        /\ pc = "built"
        /\ stg.builder =
              IF stg.scheduling = "pipeline" /\ stg.index # 0
              THEN IF stg.is_worker /\ ~stg.loop_info
                   THEN "WorkerPipelineStageBuilder"
                   ELSE "LoopPipelineStageBuilder"
              ELSE "StateBuilder"

----------------------------------------------------------------------------
(* Properties of the pipeline of a worker.                                 *)

\* the signals an AHDL expression or statement names
RECURSIVE SignalsIn(_)
SignalsIn(c) ==
    CASE c[1] = "VAR" -> {c[2]}
      [] c[1] = "OP1" -> SignalsIn(c[3])
      [] c[1] = "OP" -> SignalsIn(c[3]) \cup SignalsIn(c[4])
      [] c[1] = "IF_EXP" -> SignalsIn(c[2]) \cup SignalsIn(c[3]) \cup SignalsIn(c[4])
      [] c[1] = "MOVE" -> {c[2]} \cup SignalsIn(c[3])
      [] c[1] \in {"IF", "TRANSITION_IF"} ->
            SignalsIn(c[2]) \cup UNION {SignalsIn(c[3][k]) : k \in DOMAIN c[3]}
      [] OTHER -> {}

\* the signals the codes of the pipeline state name: the signals
\* _pipeline_signal has created
PipelineSignals(ps) ==
    UNION {LET stage == StageAt(ps, i)
           IN UNION {SignalsIn(stage.ctrl[k]) : k \in DOMAIN stage.ctrl}
              \cup SignalsIn(stage.guard.cond)
              \cup (IF stage.enable # <<>> THEN SignalsIn(stage.enable) ELSE {})
           : i \in StageIdx(ps)}

\* the state the codes of the current cycle make the next one
TransitionNow ==
    ExecSeq(CtrlFrom(pstate, 0), 1, CurState, [regs |-> regs, trans |-> "none"]).trans

\* C34: a continuous worker pipeline never leaves its pipeline state: the
\* terminal transition of the last stage of the PipelineState targets that
\* same PipelineState, which is both the init and the finish state of its
\* STG, and no exit or last signal is created for it.
C34_WorkerPipelineStays ==
    ~pstate.is_finite_loop =>
        /\ pc = "run"
        /\ TransitionNow = "pstate"
        /\ Last(StageAt(pstate, LastIdx).ctrl) = AHDL_TRANSITION("pstate")
        /\ stg.states = <<"pstate">>
        /\ stg.init_state = "pstate" /\ stg.finish_state = "pstate"
        /\ \A s \in PipelineSignals(pstate) : s[1] \notin {"exit", "last"}

\* C34 witness: a worker pipeline of more than one stage has taken every
\* input it is given, delivered a result, and is still in its state
C34_Witness ==
    /\ ~pstate.is_finite_loop
    /\ NumStages(pstate) > 1
    /\ data.cnt = MaxTokens
    /\ data.out # <<>>
    /\ pc = "run"

----------------------------------------------------------------------------
(* Properties of the exit of a finite-loop pipeline.                       *)

\* the exit register of the pipeline state
ExitReg == exit_signal(LastIdx)

\* the last registers of the pipeline state
LastRegs == {s \in DOMAIN regs : s[1] = "last"}

\* one cycle of a finite-loop pipeline: the exit register rises exactly in
\* a cycle where it is 0 and the exit condition holds; the transition to the
\* loop exit is taken exactly in a cycle where the exit register is 1, and
\* the cycle that takes it leaves the exit register and every last register
\* at 0
TwoPhaseExitCycle ==
    (pstate.is_finite_loop /\ pc = "run") =>
        /\ (regs[ExitReg] = 0 /\ ExitCondNow) => (regs'[ExitReg] = 1 /\ pc' = "run")
        /\ (regs[ExitReg] = 0 /\ regs'[ExitReg] = 1) => ExitCondNow
        /\ pc' = "exited" => regs[ExitReg] = 1
        /\ pc' = "exited" =>
              /\ regs'[ExitReg] = 0
              /\ \A l \in LastRegs : regs'[l] = 0

\* C35: in a finite-loop pipeline the exit is two-phase: the exit register
\* is set in a cycle where the exit condition holds and the transition to
\* the loop exit block is taken only in a cycle where the exit register is
\* 1; taking that transition resets the exit register and every last[i]
\* register that the chain assigns to 0, so that when the pipeline state is
\* entered again no last or exit signal is still asserted.
C35_TwoPhaseExit == [][TwoPhaseExitCycle]_vars

\* C35 witness: a loop of two or more stages whose last register was set
\* by the chain has been left after at least one iteration, and its exit
\* and last registers are 0
C35_Witness ==
    /\ pc = "exited"
    /\ pstate.is_finite_loop
    /\ NumStages(pstate) >= 2
    /\ data.cnt >= 1
    /\ obs.condBefore
    /\ regs[ExitReg] = 0
    /\ \A l \in LastRegs : regs[l] = 0

----------------------------------------------------------------------------
(* Properties of the valid and hold registers of the control chain.        *)

\* the stages past the first one whose hold and valid registers the chain
\* assigns
HoldValidStages ==
    {i \in StageIdx(pstate) : i > 0 /\ i < LastIdx /\ StageAt(pstate, i).has_hold}

\* hold[i] and valid[i] are not both 1
NeverHoldAndValid ==
    \A i \in HoldValidStages :
        ~(regs[hold_signal(i)] = 1 /\ regs[valid_signal(i)] = 1)

\* one cycle: valid[i] is 1 after it only if ready[i] was 1 in it
ValidOnlyIfReady ==
    pc = "run" =>
        \A i \in StageIdx(pstate) : regs'[valid_signal(i)] = 1 => Ready(i) = 1

\* C36: starting from all control registers at 0, in every reachable cycle
\* of the emitted control chain hold[i] and valid[i] are never both 1 for
\* any stage i > 0 that has both registers, and valid[i] is 1 after a cycle
\* only if ready[i] was 1 in that cycle.
C36_HoldExcludesValid == []NeverHoldAndValid /\ [][ValidOnlyIfReady]_vars

\* C36 witness: a stage past the first one with both registers holds an
\* iteration, its valid register is 0 and was 1 after an earlier cycle
C36_Witness ==
    /\ pc = "run"
    /\ \E i \in HoldValidStages :
          /\ regs[hold_signal(i)] = 1 /\ regs[valid_signal(i)] = 0
          /\ obs.passed[i] > 0

----------------------------------------------------------------------------
(* Properties of the resolve pass of STGBuilder.process.                   *)

\* the calls of resolve_transition made on state k of region s
CallsOn(s, k) ==
    {n \in DOMAIN stg.calls : stg.calls[n][1] = s /\ stg.calls[n][2] = k}

\* the next_state the state k of region s is to be resolved with: its
\* successor in stg.states, or for the last state the first state of the
\* region (the last state itself in the main region of a worker or a
\* testbench)
SuccessorOrWrap(s, k) ==
    LET states == stg.states[s]
    IN IF k < Len(states) THEN states[k + 1].name
       ELSE IF s = 1 /\ stg.kind \in {"worker", "testbench"} THEN states[Len(states)].name
       ELSE states[1].name

\* C37: STGBuilder.process calls resolve_transition exactly once on every
\* state of every STG of the scope (each state but the last with its
\* successor in emission order, the last with the wrap-around target), for
\* any number of states, a single-state STG included, so no state's
\* conditional transition is resolved a second time after its targets were
\* replaced by states.
C37_ResolvedOnce ==
    /\ \A n \in DOMAIN stg.calls :
          /\ CallsOn(stg.calls[n][1], stg.calls[n][2]) = {n}
          /\ stg.calls[n][3] = SuccessorOrWrap(stg.calls[n][1], stg.calls[n][2])
    /\ pc = "stg_resolve" => TargetsAreBlocks(stg.states[stg.r[1]][Receiver(stg.r[1], stg.r[2])])
    /\ pc = "stg_done" =>
          \A s \in DOMAIN stg.states : \A k \in DOMAIN stg.states[s] :
              Cardinality(CallsOn(s, k)) = 1

\* C37 witness: the pass has ended on a scope whose main STG has three or
\* more states, one of them ending in a conditional transition, and whose
\* other STG has a single state
C37_Witness ==
    /\ pc = "stg_done"
    /\ Len(stg.states[1]) >= 3
    /\ Len(stg.states[2]) = 1
    /\ \E k \in DOMAIN stg.states[1] :
          k < Len(stg.states[1])
          /\ is_a(Last(stg.states[1][k].codes), {"TRANSITION_IF"})
    /\ Len(stg.calls) = Len(stg.states[1]) + 1

----------------------------------------------------------------------------
(* Part 12: PortConverter.  The module has two port fields; the calls and  *)
(* syscalls of its constructor and workers are drawn and visited in order, *)
(* then the class fields are checked.  queue holds the nodes still to      *)
(* visit, obs the nodes visited, data the type of every port field.        *)

\* IR nodes of the module at most
MaxAccesses == 3

\* the port fields of the module
Ports == {"p", "q"}

\* the type of a port as PortTypeProp.visit_NEW makes it
PortType == [direction |-> "?", freezed |-> FALSE]

\* Type.set_direction and Type.freeze
set_direction(typ, direction) == [typ EXCEPT !.direction = direction]

freeze(typ) == [typ EXCEPT !.freezed = TRUE]

\* the nodes the converter visits: a call of a port method, a call of
\* another function, a wait on one or two ports, another syscall
PortNodes ==
    [kind : {"CALL"}, name : {"wr", "rd", "edge"}, args : {<<p>> : p \in Ports}]
    \cup {[kind |-> "CALL", name |-> "func", args |-> <<>>]}
    \cup [kind : {"SYSCALL"},
          name : {"polyphony.timing.wait_rising", "polyphony.timing.wait_falling"},
          args : {<<p>> : p \in Ports}
                 \cup {<<p, q>> : p \in Ports, q \in Ports}]
    \cup {[kind |-> "SYSCALL", name |-> "polyphony.timing.clksleep", args |-> <<>>]}

RECURSIVE NodeLists(_)
NodeLists(n) ==
    IF n = 0 THEN {<<>>}
    ELSE NodeLists(n - 1)
         \cup {Append(l, x) : l \in {m \in NodeLists(n - 1) : Len(m) = n - 1},
                              x \in PortNodes}

\* the direction a call of the port method asks for
MethodDirection_input(name) == "input"

MethodDirection(name) == IF name = "wr" THEN "output" ELSE "input"

\* visit_CALL: the types afterwards and the error raised, if any
visit_CALL(typs, ir) ==
    IF ir.name = "func" THEN [typs |-> typs, error |-> ""]
    ELSE LET sym == ir.args[1]
             direction == MethodDirection(ir.name)
             di == typs[sym].direction
         IN IF di = "?"
            THEN [typs |-> [typs EXCEPT ![sym] = freeze(set_direction(@, direction))],
                  error |-> ""]
            ELSE IF di # direction
                 THEN [typs |-> typs, error |-> "Port direction is conflicted"]
                 ELSE [typs |-> typs, error |-> ""]

\* visit_SYSCALL, "for a in ir.args" from argument k on
RECURSIVE WaitArgsFrom(_, _, _)
WaitArgsFrom(typs, args, k) ==
    IF k > Len(args) THEN [typs |-> typs, error |-> ""]
    ELSE LET di == typs[args[k]].direction
         IN IF di = "output"
            THEN [typs |-> typs, error |-> "Cannot wait for output port"]
            ELSE WaitArgsFrom(
                     IF di = "?"
                     THEN [typs EXCEPT ![args[k]] = freeze(set_direction(@, "input"))]
                     ELSE typs,
                     args, k + 1)

visit_SYSCALL(typs, ir) ==
    IF ir.name \in {"polyphony.timing.wait_rising", "polyphony.timing.wait_falling"}
    THEN WaitArgsFrom(typs, ir.args, 1)
    ELSE [typs |-> typs, error |-> ""]

InitPorts ==
    /\ pc = "convert"
    /\ IdleSim
    /\ queue \in NodeLists(MaxAccesses)
    /\ obs = <<>>
    /\ data = [p \in Ports |-> PortType]

\* self.process(scope): the next call or syscall is visited
VisitNode ==
    /\ pc = "convert"
    /\ queue # <<>>
    /\ LET ir == Head(queue)
           r == IF ir.kind = "CALL" THEN visit_CALL(data, ir)
                ELSE visit_SYSCALL(data, ir)
       IN /\ data' = r.typs
          /\ pc' = IF r.error # "" THEN r.error ELSE pc
    /\ queue' = Tail(queue)
    /\ obs' = Append(obs, Head(queue))
    /\ UNCHANGED simFrame

\* process_all: every worker is processed; a port field whose direction is
\* still '?' raises
CheckFields ==
    /\ pc = "convert"
    /\ queue = <<>>
    /\ pc' = IF \E p \in Ports : data[p].direction = "?"
             THEN "is not used at all" ELSE "done"
    /\ UNCHANGED <<queue, obs, data, simFrame>>

NextPorts == VisitNode \/ CheckFields

SpecPorts == InitPorts /\ [][NextPorts]_vars

----------------------------------------------------------------------------
(* Properties of PortConverter.                                            *)

\* the visited node is an access to ports: a port method or a wait on an
\* edge
IsPortAccess(ir) ==
    \/ ir.kind = "CALL" /\ ir.name # "func"
    \/ ir.kind = "SYSCALL" /\ ir.name # "polyphony.timing.clksleep"

\* the direction the access wants the port to have
WantedDirection(ir) ==
    IF ir.kind = "CALL" /\ ir.name = "wr" THEN "output" ELSE "input"

\* the visited nodes that access the port
AccessesOf(p) ==
    {n \in DOMAIN obs : IsPortAccess(obs[n]) /\ p \in Elems(obs[n].args)}

PortError == pc \in {"Port direction is conflicted", "Cannot wait for output port"}

\* the direction of every port is '?' until the port is accessed and from
\* then on what its first access wanted; every access but one that raised
\* agrees with it; an error is raised by an access that disagrees; the
\* last check raises exactly when a port is left at '?'
PortDirections ==
    /\ \A p \in Ports :
          IF data[p].direction = "?"
          THEN \A n \in AccessesOf(p) :
                  n = Len(obs) /\ pc = "Cannot wait for output port"
          ELSE /\ AccessesOf(p) # {}
               /\ data[p].direction = WantedDirection(obs[SetMin(AccessesOf(p))])
               /\ \A n \in AccessesOf(p) :
                     (n < Len(obs) \/ ~PortError) =>
                         WantedDirection(obs[n]) = data[p].direction
    /\ pc = "Port direction is conflicted" =>
          LET ir == obs[Len(obs)]
          IN /\ ir.kind = "CALL" /\ IsPortAccess(ir)
             /\ data[ir.args[1]].direction \notin {"?", WantedDirection(ir)}
    /\ pc = "Cannot wait for output port" =>
          LET ir == obs[Len(obs)]
          IN /\ ir.kind = "SYSCALL" /\ IsPortAccess(ir)
             /\ \E p \in Elems(ir.args) : data[p].direction = "output"
    /\ pc = "done" => queue = <<>> /\ \A p \in Ports : data[p].direction # "?"
    /\ pc = "is not used at all" =>
          queue = <<>> /\ \E p \in Ports : data[p].direction = "?"

\* one step: a direction that is fixed stays as it is
DirectionLatched ==
    \A p \in Ports :
        data[p].direction # "?" => data'[p].direction = data[p].direction

\* C38: a port's direction is a one-way latch: it starts unknown ('?'), the
\* first access fixes it ('wr' fixes output, any other port method fixes
\* input, waiting on a rising or falling edge fixes input), after that it
\* never changes, a later access with the opposite direction or a wait on
\* an output port raises a RuntimeError, and a module port field that is
\* still '?' after all workers were processed raises 'is not used at all'.
C38_DirectionLatch == []PortDirections /\ [][DirectionLatched]_vars

\* C38 witness: port p was written twice and is then read, which raises;
\* its direction is output and the other port was never accessed
C38_Witness ==
    /\ pc = "Port direction is conflicted"
    /\ Len(obs) = 3
    /\ obs[1].name = "wr" /\ obs[2].name = "wr" /\ obs[3].name = "rd"
    /\ \A n \in 1..3 : obs[n].args = <<"p">>
    /\ data["p"] = [direction |-> "output", freezed |-> TRUE]
    /\ data["q"] = PortType

----------------------------------------------------------------------------
(* Part 13: _start and _stop of module instances.  Two instances of module *)
(* classes, each with the workers its constructor appended; the testbench  *)
(* code calls _start and _stop on them in any order.  data.running is the  *)
(* global _is_worker_running, data.threads the state of every worker       *)
(* thread, obs the calls made.                                             *)

\* calls of _start and _stop at most
MaxStartStops == 4

\* workers of a module instance at most
MaxWorkers == 2

ModuleInstances == {"a", "b"}

\* Thread.start(): a thread can only be started once
ThreadsStartable(ths) == \A w \in DOMAIN ths : ths[w] = "new"

\* Thread.join(): a thread cannot be joined before it is started
ThreadsJoinable(ths) == \A w \in DOMAIN ths : ths[w] # "new"

InitModules ==
    /\ pc = "testbench"
    /\ IdleSim
    /\ queue = <<>>
    /\ obs = <<>>
    /\ \E n \in [ModuleInstances -> 1..MaxWorkers] :
          data = [running |-> FALSE,
                  threads |-> [i \in ModuleInstances |-> [w \in 1..n[i] |-> "new"]]]

\* instance._start(): _module_start
StartInstance(i) ==
    /\ pc = "testbench"
    /\ Len(obs) < MaxStartStops
    /\ obs' = Append(obs, <<"_start", i>>)
    /\ IF data.running
       THEN UNCHANGED <<pc, data>>
       ELSE IF ThreadsStartable(data.threads[i])
            THEN /\ data' = [data EXCEPT
                               !.running = TRUE,
                               !.threads[i] = [w \in DOMAIN @ |-> "started"]]
                 /\ pc' = pc
            ELSE /\ data' = [data EXCEPT !.running = TRUE]
                 /\ pc' = "RuntimeError"
    /\ UNCHANGED <<queue, simFrame>>

\* instance._stop(): _module_stop; a started worker sees is_worker_running()
\* False and ends, and is joined
StopInstance(i) ==
    /\ pc = "testbench"
    /\ Len(obs) < MaxStartStops
    /\ obs' = Append(obs, <<"_stop", i>>)
    /\ IF ~data.running
       THEN UNCHANGED <<pc, data>>
       ELSE IF ThreadsJoinable(data.threads[i])
            THEN /\ data' = [data EXCEPT
                               !.running = FALSE,
                               !.threads[i] = [w \in DOMAIN @ |-> "joined"]]
                 /\ pc' = pc
            ELSE /\ data' = [data EXCEPT !.running = FALSE]
                 /\ pc' = "RuntimeError"
    /\ UNCHANGED <<queue, simFrame>>

NextModules ==
    \/ \E i \in ModuleInstances : StartInstance(i)
    \/ \E i \in ModuleInstances : StopInstance(i)

SpecModules == InitModules /\ [][NextModules]_vars

----------------------------------------------------------------------------
(* Properties of _start and _stop.                                         *)

\* is_worker_running()
is_worker_running == data.running

\* is_worker_running() is True exactly after a _start that no _stop has
\* followed, and after _start on an instance every worker of the instance
\* has been started
RunningBetweenStartAndStop ==
    /\ is_worker_running <=> (obs # <<>> /\ Last(obs)[1] = "_start")
    /\ (obs # <<>> /\ Last(obs)[1] = "_start") =>
          \A w \in DOMAIN data.threads[Last(obs)[2]] :
              data.threads[Last(obs)[2]][w] # "new"

\* a _start while running and a _stop while stopped do nothing
StartStopIdempotent ==
    /\ (is_worker_running /\ Last(obs')[1] = "_start") => data' = data /\ pc' = pc
    /\ (~is_worker_running /\ Last(obs')[1] = "_stop") => data' = data /\ pc' = pc

\* C39: for any sequence of _start and _stop calls on module instances,
\* is_worker_running() is True exactly between a _start and the next _stop,
\* _start and _stop are idempotent (a second _start while running and a
\* _stop while stopped do nothing), and after _start on a module instance
\* every worker appended to that instance has been started, also when
\* another module instance was started before it.
C39_StartStop == []RunningBetweenStartAndStop /\ [][StartStopIdempotent]_vars

----------------------------------------------------------------------------
(* Part 14: Scope.reorder_scopes.  Scope 0 is the global scope '@top'; the *)
(* other scopes hang below it in a tree and call each other.  queue is the *)
(* stack of the calls of set_order that have not returned, data the        *)
(* scopes with their order and the set "ordered".                          *)

\* scopes below the global scope at most
MaxScopes == 3

\* caller/callee edges at most
MaxCallEdges == 2

\* frames of set_order the interpreter allows (sys.getrecursionlimit()): more
\* than a path without a repeated scope needs
RecursionLimit == MaxScopes + 2

\* the trees: the parent of a scope was created before it
ScopeTrees(n) == {par \in [1..n -> 0..(n - 1)] : \A s \in 1..n : par[s] < s}

\* the call graphs: callee_scopes of every scope
CallGraphs(n) ==
    {[s \in 1..n |-> {e[2] : e \in {x \in E : x[1] = s}}] :
        E \in {F \in SUBSET ((1..n) \X (1..n)) : Cardinality(F) <= MaxCallEdges}}

\* scope.children, in the order append_child added them
ScopeChildren(par, s) == SortedSeq({c \in DOMAIN par : par[c] = s})

\* "if order > scope.order: ... elif scope in ordered: return" with the
\* test for an ordered scope first
set_order_branch_ordered_first(order, scope_order, is_ordered) ==
    IF is_ordered THEN "return"
    ELSE IF order > scope_order THEN "set" ELSE "go on"

\* set_order: "if order > scope.order: ... elif scope in ordered: return"
set_order_branch(order, scope_order, is_ordered) ==
    IF order > scope_order THEN "set"
    ELSE IF is_ordered THEN "return" ELSE "go on"

\* the call set_order(s, order, ordered) up to its first inner call: the
\* scopes and the stack afterwards; the call fails where the stack is full
set_order(d, stack, s, order) ==
    LET br == set_order_branch(order, d.order[s], s \in d.ordered)
        d1 == IF br = "set"
              THEN [d EXCEPT !.order[s] = order, !.ordered = @ \cup {s}]
              ELSE d
        frame == [scope |-> s, order |-> order + 1,
                  children |-> ScopeChildren(d.par, s),
                  callees |-> d.callee[s]]
    IN IF Len(stack) >= RecursionLimit
       THEN [d |-> d, stack |-> stack, error |-> TRUE]
       ELSE IF br = "return"
            THEN [d |-> d1, stack |-> stack, error |-> FALSE]
            ELSE [d |-> d1, stack |-> <<frame>> \o stack, error |-> FALSE]

\* every scope is new (order -1); reorder_scopes has set top.order = 0 and
\* is about to loop over top.children
InitReorder ==
    /\ pc = "reorder"
    /\ IdleSim
    /\ obs = <<>>
    /\ queue = <<>>
    /\ \E n \in 1..MaxScopes :
          \E par \in ScopeTrees(n), callee \in CallGraphs(n) :
             data = [par |-> par, callee |-> callee,
                     order |-> [s \in 0..n |-> IF s = 0 THEN 0 ELSE 0 - 1],
                     ordered |-> {},
                     todo |-> ScopeChildren(par, 0)]

\* "for f in top.children: set_order(f, 1, ordered)": the next call
TopCall ==
    /\ pc = "reorder"
    /\ queue = <<>> /\ data.todo # <<>>
    /\ LET r == set_order([data EXCEPT !.todo = Tail(@)], queue, Head(data.todo), 1)
       IN /\ data' = r.d
          /\ queue' = r.stack
          /\ pc' = IF r.error THEN "RecursionError" ELSE pc
    /\ UNCHANGED <<obs, simFrame>>

\* the innermost call of set_order goes on: the next child, then the next
\* callee (a set: any order), then it returns
InnerCall ==
    /\ pc = "reorder"
    /\ queue # <<>>
    /\ LET f == Head(queue)
       IN IF f.children # <<>>
          THEN LET r == set_order(data,
                                  <<[f EXCEPT !.children = Tail(@)]>> \o Tail(queue),
                                  Head(f.children), f.order)
               IN /\ data' = r.d
                  /\ queue' = r.stack
                  /\ pc' = IF r.error THEN "RecursionError" ELSE pc
          ELSE IF f.callees # {}
               THEN \E s \in f.callees :
                       LET r == set_order(data,
                                          <<[f EXCEPT !.callees = @ \ {s}]>> \o Tail(queue),
                                          s, f.order)
                       IN /\ data' = r.d
                          /\ queue' = r.stack
                          /\ pc' = IF r.error THEN "RecursionError" ELSE pc
               ELSE /\ queue' = Tail(queue)
                    /\ UNCHANGED <<pc, data>>
    /\ UNCHANGED <<obs, simFrame>>

\* reorder_scopes returns
ReorderDone ==
    /\ pc = "reorder"
    /\ queue = <<>> /\ data.todo = <<>>
    /\ pc' = "reordered"
    /\ UNCHANGED <<queue, data, obs, simFrame>>

NextReorder == TopCall \/ InnerCall \/ ReorderDone

SpecReorder == InitReorder /\ [][NextReorder]_vars

\* the interpreter runs the call to its end
SpecReorderFair == SpecReorder /\ WF_vars(NextReorder)

----------------------------------------------------------------------------
(* Properties of reorder_scopes.                                           *)

\* the scopes below a scope and the scopes it calls
ScopeSuccs(s) ==
    {c \in DOMAIN data.par : data.par[c] = s}
    \cup (IF s = 0 THEN {} ELSE data.callee[s])

\* the scopes reached from the scopes S over up to k nestings and calls
RECURSIVE ScopesWithin(_, _)
ScopesWithin(S, k) ==
    IF k = 0 THEN S
    ELSE ScopesWithin(S \cup UNION {ScopeSuccs(s) : s \in S}, k - 1)

\* no scope is below or called by a scope it reaches: no recursion
NoRecursion ==
    \A s \in DOMAIN data.par :
        s \notin ScopesWithin(ScopeSuccs(s), Cardinality(DOMAIN data.par))

\* every scope has an order greater than its parent's and its callers'
OrderAboveParentAndCallers ==
    \A s \in DOMAIN data.par :
        /\ data.order[s] > data.order[data.par[s]]
        /\ \A c \in DOMAIN data.callee : s \in data.callee[c] => data.order[s] > data.order[c]

====
